---- MODULE Spec2Model ----
(***************************************************************************)
(* Model of the IMAP mailbox index of bmagent (email/mailbox.go): the      *)
(* sorted uid index with its interpolation search, the message-set         *)
(* resolvers, and the add / save / delete / acknowledge operations that    *)
(* keep the cached index and counters in step with the message store.      *)
(*                                                                         *)
(* The specifications share the definitions:                               *)
(*   SpecSearch  GetSequenceNumber run one loop iteration per step on      *)
(*               every ascending sequence within the bounds;               *)
(*   SpecSearchFloat, SpecSearchFloatLive                                  *)
(*               the same search with the probe computed in floating       *)
(*               point, and with the loop scheduled fairly;                *)
(*   Spec        one caller, every public operation as one step, with the  *)
(*               store allowed to fail;                                    *)
(*   SpecQuery   one caller that adds and deletes messages and records     *)
(*               what the lookups and the set resolvers return;            *)
(*   SpecCalls   one caller whose mutations are recorded with their        *)
(*               arguments and with what they return;                      *)
(*   SpecShared  one caller on a folder that other writers fill too, with  *)
(*               or without a membership predicate;                        *)
(*   SpecConc    several callers interleaving at the points where the      *)
(*               code takes and releases the RWMutex;                      *)
(*   SpecKeys    two goroutines calling the key Manager                    *)
(*               (keymgr/manager.go);                                      *)
(*   SpecIDs     one caller filling the identity database of the key       *)
(*               Manager;                                                  *)
(*   SpecLock, SpecLockLive                                                *)
(*               the RWMutex of the mailbox as its callers take it, and    *)
(*               the same with every caller scheduled fairly;              *)
(*   SpecRPC, SpecRPCLive                                                  *)
(*               the RPC Client (rpc/client.go) with its processors and    *)
(*               the callers of Stop, and the same scheduled fairly.       *)
(***************************************************************************)
EXTENDS Integers, Sequences, FiniteSets, TLC

\* ------------------------------------------------------------------------
\* Bounds
\* ------------------------------------------------------------------------
\* Largest identifier the store hands out (InsertNewMessage is disabled
\* once the store's next id passes it).
MaxUID == 3

\* Largest identifier value in the sequences the search is run on.
SearchMax == 6

\* Largest identifier the store hands out when callers run concurrently.
ConcMaxUID == 2

\* Largest identifier the store hands out when the calls are recorded with
\* what they return.
CallMaxUID == 3

\* Largest identifier the store hands out when it is shared with other
\* writers.
SharedMaxUID == 2

\* Number of significant bits of the floating-point numbers where the
\* rounding of GetSequenceNumber's arithmetic is modelled.  float64 has 53;
\* the identifiers of that specification are scaled down with it.
FloatBits == 4

\* Number of identities the master key of the key Manager derives.
MaxHDIndex == 3

\* Largest object counter handed to Client.Start.
MaxCounter == 1

\* ------------------------------------------------------------------------
\* MessageSequence.GetSequenceNumber (mailbox.go 29-79)
\*
\* Indices are the code's 0-based indices; uids[i] of the code is U[i + 1].
\* The code computes the probe in float64.  For identifiers and lengths as
\* small as the ones used here every quotient and product is exactly
\* representable or rounds back to the exact integer, so
\*   floor(minIndex + ratio * (maxIndex - minIndex))
\* is the integer expression of checkIndex below.
\* ------------------------------------------------------------------------
At(U, i) == U[i + 1]

checkIndex(s, uid) ==
    s.minIndex + (((uid - s.minUID) * (s.maxIndex - s.minIndex)) \div (s.maxUID - s.minUID))

Returned(n) ==
    [done |-> TRUE, result |-> n, minIndex |-> 0, maxIndex |-> 0, minUID |-> 0, maxUID |-> 0]

Looping(minIndex, maxIndex, minUID, maxUID) ==
    [done |-> FALSE, result |-> 0, minIndex |-> minIndex, maxIndex |-> maxIndex,
     minUID |-> minUID, maxUID |-> maxUID]

\* Lines 30-54: the early returns and the initial bounds.
searchEnter(U, uid) ==
    IF Len(U) = 0 THEN Returned(1)
    ELSE IF uid < U[1] THEN Returned(1)
    ELSE IF uid > U[Len(U)] THEN Returned(Len(U) + 1)
    ELSE IF Len(U) = 1 THEN Returned(1)
    ELSE Looping(0, Len(U) - 1, At(U, 0), At(U, Len(U) - 1))

\* Lines 57-77 with the low-probe return at the wrong position.
searchIterateOffByOne(U, uid, s) ==
    LET ci     == checkIndex(s, uid)
        newUID == At(U, ci)
    IN  IF newUID = uid THEN Returned(ci + 1)
        ELSE IF newUID > uid THEN Looping(s.minIndex, ci, s.minUID, newUID)
        ELSE IF At(U, ci + 1) > uid THEN Returned(ci + 1)
        ELSE Looping(ci + 1, s.maxIndex, At(U, ci + 1), s.maxUID)

\* Lines 57-77 with the lower bound left on the probe after a low probe.
searchIterateKeepProbe(U, uid, s) ==
    LET ci     == checkIndex(s, uid)
        newUID == At(U, ci)
    IN  IF newUID = uid THEN Returned(ci + 1)
        ELSE IF newUID > uid THEN Looping(s.minIndex, ci, s.minUID, newUID)
        ELSE IF At(U, ci + 1) > uid THEN Returned(ci + 2)
        ELSE Looping(ci, s.maxIndex, newUID, s.maxUID)

\* Lines 57-77: one iteration of the loop.
searchIterate(U, uid, s) ==
    LET ci     == checkIndex(s, uid)
        newUID == At(U, ci)
    IN  IF newUID = uid THEN Returned(ci + 1)
        ELSE IF newUID > uid THEN Looping(s.minIndex, ci, s.minUID, newUID)
        ELSE IF At(U, ci + 1) > uid THEN Returned(ci + 2)
        ELSE Looping(ci + 1, s.maxIndex, At(U, ci + 1), s.maxUID)

RECURSIVE searchRun(_, _, _)
searchRun(U, uid, s) ==
    IF s.done THEN s.result ELSE searchRun(U, uid, searchIterate(U, uid, s))

GetSequenceNumber(U, uid) == searchRun(U, uid, searchEnter(U, uid))

\* ------------------------------------------------------------------------
\* GetSequenceNumber with the rounding of its floating-point arithmetic
\* (mailbox.go 57-59).  A float is the dyadic rational m / 2^k with m of at
\* most FloatBits significant bits; every conversion and every operation
\* rounds to the nearest such number, ties to the even significand, as
\* IEEE 754 does with 53 bits.
\* ------------------------------------------------------------------------
FloatMaxUID == 2^FloatBits + 2

\* The largest integer that is rounded.
FloatMaxN == 2^(2 * FloatBits + 4)

\* The number of bits of n.
BitLen == [n \in 0..FloatMaxN |->
              CHOOSE b \in 0..(2 * FloatBits + 5) : (b = 0 \/ 2^(b - 1) <= n) /\ n < 2^b]

\* n rounded to FloatBits significant bits.
Rounded ==
    [n \in 0..FloatMaxN |->
        IF n < 2^FloatBits THEN n
        ELSE LET sh   == BitLen[n] - FloatBits
                 q    == n \div 2^sh
                 r    == n % 2^sh
                 half == 2^(sh - 1)
             IN  (IF r > half \/ (r = half /\ q % 2 = 1) THEN q + 1 ELSE q) * 2^sh]

RoundToBits(n) == Rounded[n]

\* float64(n) / float64(d) for integers 0 <= n <= d, 0 < d: the quotient
\* m / 2^k, where k is the shift that gives m its FloatBits bits.
Ratios ==
    [n \in 0..(FloatMaxUID + 1), d \in 1..(FloatMaxUID + 1) |->
        LET a == Rounded[n]
            b == Rounded[d]
            j == BitLen[b] - BitLen[a] + FloatBits - 1
            k == IF a * 2^j >= b * 2^(FloatBits - 1) THEN j ELSE j + 1
            q == (a * 2^k) \div b
            r == (a * 2^k) % b
        IN  IF a = 0 \/ n > d THEN [m |-> 0, k |-> 0]
            ELSE [m |-> IF 2 * r > b \/ (2 * r = b /\ q % 2 = 1) THEN q + 1 ELSE q,
                  k |-> k]]

FloatRatio(n, d) == Ratios[n, d]

\* Line 59: uint32(math.Floor(float64(minIndex) + ratio*float64(maxIndex-minIndex))).
checkIndexFloat(s, uid) ==
    LET ratio == FloatRatio(uid - s.minUID, s.maxUID - s.minUID)
    IN  RoundToBits(RoundToBits(s.minIndex) * 2^ratio.k
                    + RoundToBits(ratio.m * RoundToBits(s.maxIndex - s.minIndex)))
           \div 2^ratio.k

\* Lines 57-77: one iteration of the loop, the probe computed in floats.
searchIterateFloat(U, uid, s) ==
    LET ci     == checkIndexFloat(s, uid)
        newUID == At(U, ci)
    IN  IF newUID = uid THEN Returned(ci + 1)
        ELSE IF newUID > uid THEN Looping(s.minIndex, ci, s.minUID, newUID)
        ELSE IF At(U, ci + 1) > uid THEN Returned(ci + 2)
        ELSE Looping(ci + 1, s.maxIndex, At(U, ci + 1), s.maxUID)

\* ------------------------------------------------------------------------
\* Messages and their stored form
\* ------------------------------------------------------------------------
\* box.sub, the membership predicate of a subfolder (114-116): set says
\* whether it is non-nil, acks holds the acknowledgment tokens of the
\* messages it accepts.  It is fixed when the mailbox is built.
VARIABLE sub

NoSub == [set |-> FALSE, acks |-> {}]

\* box.sub != nil && !box.sub(entry) (180, 356, 767).
subRejects(entry) == sub.set /\ entry.Ack \notin sub.acks

\* types.Flags bits used by the mailbox.
FlagSeen == "Seen"
FlagRecent == "Recent"
FlagDeleted == "Deleted"

\* A nil *Bitmessage.
NilBM ==
    [isNil |-> TRUE, UID |-> 0, SequenceNumber |-> 0, Flags |-> {},
     TimeReceived |-> 0, Ack |-> 0, AckReceived |-> FALSE]

\* Bitmessage.Serialize: the stored form carries the fields of the
\* protobuf Message; ImapData has time_received and flags only, so the
\* uid and the sequence number are not stored.
Serialize(bm) ==
    [ack |-> bm.Ack,
     imap_data |-> [time_received |-> bm.TimeReceived, flags |-> bm.Flags],
     state |-> [ack_received |-> bm.AckReceived]]

\* DecodeBitmessage: rebuilds the message from the stored fields; the uid
\* and the sequence number come back as zero.
DecodeBitmessage(bytes) ==
    [isNil |-> FALSE, UID |-> 0, SequenceNumber |-> 0,
     Flags |-> bytes.imap_data.flags,
     TimeReceived |-> bytes.imap_data.time_received,
     Ack |-> bytes.ack,
     AckReceived |-> bytes.state.ack_received]

\* Stored bytes that are not the encoding of a Message, and the test that
\* DecodeBitmessage returns an error on the bytes.
Garbage == [junk |-> TRUE]
DecodeFails(bytes) == DOMAIN bytes # {"ack", "imap_data", "state"}

\* mailbox.decodeBitmessageForImap (129-139): nil when the bytes do not
\* decode.
decodeBitmessageForImap(uid, seqno, bytes) ==
    IF DecodeFails(bytes) THEN NilBM
    ELSE [DecodeBitmessage(bytes) EXCEPT !.UID = uid, !.SequenceNumber = seqno]

\* ------------------------------------------------------------------------
\* The message store (store.Folder), entries of suffix 2 only.  A store is
\* a function from the identifiers in use to the stored bytes.
\* ------------------------------------------------------------------------
EmptyStore == [i \in {} |-> 0]

Min(S) == CHOOSE x \in S : \A y \in S : x <= y

RECURSIVE Ascending(_)
Ascending(S) ==
    IF S = {} THEN <<>> ELSE <<Min(S)>> \o Ascending(S \ {Min(S)})

\* ForEachMessage(lowID, highID, 2, f): the identifiers visited, in
\* ascending order; highID = 0 means no upper limit.
ForEachMessage(st, lowID, highID) ==
    Ascending({i \in DOMAIN st : i >= lowID /\ (highID = 0 \/ i <= highID)})

GetMessage(st, id) ==
    IF id \in DOMAIN st THEN [err |-> FALSE, msg |-> st[id]]
    ELSE [err |-> TRUE, msg |-> 0]

InsertMessage(st, id, bytes) ==
    [i \in (DOMAIN st) \cup {id} |-> IF i = id THEN bytes ELSE st[i]]

DeleteMessage(st, id) == [i \in (DOMAIN st) \ {id} |-> st[i]]

\* ------------------------------------------------------------------------
\* sort.Sort(box.uids) (81-93, 199), as an insertion sort.
\* ------------------------------------------------------------------------
RECURSIVE InsertSorted(_, _)
InsertSorted(s, x) ==
    IF s = <<>> THEN <<x>>
    ELSE IF x < Head(s) THEN <<x>> \o s
    ELSE <<Head(s)>> \o InsertSorted(Tail(s), x)

RECURSIVE sortUids(_)
sortUids(s) ==
    IF s = <<>> THEN <<>> ELSE InsertSorted(sortUids(Tail(s)), Head(s))

\* ------------------------------------------------------------------------
\* refresh (162-202)
\* ------------------------------------------------------------------------
\* mailbox.updateMailboxStats (149-156) applied to the counters c.
updateMailboxStats(c, entry) ==
    [numRecent |-> IF FlagRecent \in entry.Flags THEN c.numRecent + 1 ELSE c.numRecent,
     numUnseen |-> IF FlagSeen \notin entry.Flags THEN c.numUnseen + 1 ELSE c.numUnseen]

\* The counters after the callback of 173-188 ran on the entries ids: an
\* entry the membership predicate rejects is passed over (180-182).
RECURSIVE scanStats(_, _, _)
scanStats(st, ids, c) ==
    IF ids = <<>> THEN c
    ELSE scanStats(st, Tail(ids),
                   IF subRejects(DecodeBitmessage(st[Head(ids)])) THEN c
                   ELSE updateMailboxStats(c, DecodeBitmessage(st[Head(ids)])))

NoFail == -1

\* The number of entries of ids in front of the first one that does not
\* decode (Len(ids) if all decode).
decodable(st, ids) ==
    IF \A i \in 1..Len(ids) : ~DecodeFails(st[ids[i]]) THEN Len(ids)
    ELSE (CHOOSE i \in 1..Len(ids) :
              /\ DecodeFails(st[ids[i]])
              /\ \A j \in 1..(i - 1) : ~DecodeFails(st[ids[j]])) - 1

\* Lines 165-191: the counters are reset and then updated entry by entry
\* while the store enumerates.  The enumeration either completes
\* (failAt = NoFail) or returns an error after failAt entries were visited;
\* an entry that does not decode makes the callback return an error
\* (175-177), which ends the enumeration there.
\* list is the list of identifiers collected (169, 186).
refreshScan(st, nid, failAt) ==
    LET ids     == ForEachMessage(st, 0, 0)
        good    == decodable(st, ids)
        stop    == IF failAt = NoFail \/ good < failAt THEN good ELSE failAt
        visited == SubSeq(ids, 1, stop)
        c       == scanStats(st, visited, [numRecent |-> 0, numUnseen |-> 0])
    IN  [err       |-> failAt # NoFail \/ good < Len(ids),
         list      |-> SelectSeq(visited,
                                 LAMBDA i : ~subRejects(DecodeBitmessage(st[i]))),
         numRecent |-> c.numRecent,
         numUnseen |-> c.numUnseen,
         nextUID   |-> nid]

\* Lines 193-199 without the fresh slice of 193: the collected identifiers
\* are appended to the index that is already there.
refreshInstallAppend(oldUids, list) == sortUids(oldUids \o list)

\* Lines 193-199: the index is replaced by the collected identifiers,
\* sorted.
refreshInstall(oldUids, list) == sortUids(list)

\* refresh (162-202): the index is replaced only after a complete scan.
refresh(st, nid, oldUids, failAt) ==
    LET r == refreshScan(st, nid, failAt)
    IN  [err       |-> r.err,
         uids      |-> IF r.err THEN oldUids ELSE refreshInstall(oldUids, r.list),
         numRecent |-> r.numRecent,
         numUnseen |-> r.numUnseen,
         nextUID   |-> r.nextUID]

\* ------------------------------------------------------------------------
\* Lookups (244-415).  st is the store, U the index box.uids.
\* ------------------------------------------------------------------------
messages(U) == Len(U)

\* LastUID (217-222): uids[len(uids)-1]; indexing the empty slice at -1 is
\* a run-time panic.
LastUID(U) ==
    IF Len(U) = 0 THEN [panic |-> TRUE, value |-> 0]
    ELSE [panic |-> FALSE, value |-> At(U, Len(U) - 1)]

\* bmsgByUID (287-305).
bmsgByUID(st, U, uid) ==
    LET seqno == GetSequenceNumber(U, uid)
    IN  IF seqno > Len(U) \/ At(U, seqno - 1) # uid THEN NilBM
        ELSE IF GetMessage(st, uid).err THEN NilBM
        ELSE decodeBitmessageForImap(uid, seqno, GetMessage(st, uid).msg)

\* bitmessageBySequenceNumber (258-265).
bitmessageBySequenceNumber(st, U, seqno) ==
    IF seqno < 1 \/ seqno > messages(U) THEN NilBM
    ELSE bmsgByUID(st, U, At(U, seqno - 1))

\* lastBitmessage (333-340).
lastBitmessage(st, U) ==
    IF messages(U) = 0 THEN NilBM ELSE bmsgByUID(st, U, At(U, Len(U) - 1))

\* getRange (345-369): the entries the store enumerates that decode and
\* that the membership predicate accepts; the i-th of them is tagged with
\* startSequence + i.
getRange(st, startUID, endUID, startSequence) ==
    LET ids == SelectSeq(ForEachMessage(st, startUID, endUID),
                         LAMBDA i : /\ ~DecodeFails(st[i])
                                    /\ ~subRejects(DecodeBitmessage(st[i])))
    IN  [i \in 1..Len(ids) |->
            decodeBitmessageForImap(ids[i], startSequence + (i - 1), st[ids[i]])]

\* getSince (374-376).
getSince(st, U, startUID, startSequence) ==
    getRange(st, startUID, At(U, Len(U) - 1), startSequence)

\* bitmessagesByUIDRange (379-387).
bitmessagesByUIDRange(st, U, start, end) ==
    LET startSequence == GetSequenceNumber(U, start)
        endSequence   == GetSequenceNumber(U, end)
    IN  IF startSequence > endSequence THEN <<>>
        ELSE getRange(st, start, end, startSequence)

\* bitmessagesSinceUID (390-393).
bitmessagesSinceUID(st, U, start) ==
    getSince(st, U, start, GetSequenceNumber(U, start))

\* bitmessagesBySequenceRange (397-405); nil is the empty list.
bitmessagesBySequenceRange(st, U, start, end) ==
    IF start < 1 \/ start > messages(U) \/ end < 1 \/ end > messages(U) \/ end < start
    THEN <<>>
    ELSE getRange(st, At(U, start - 1), At(U, end - 1), start)

\* bitmessagesSinceSequenceNumber (409-415).
bitmessagesSinceSequenceNumber(st, U, start) ==
    IF start < 1 \/ start > messages(U) THEN <<>>
    ELSE getSince(st, U, At(U, start - 1), start)

\* ------------------------------------------------------------------------
\* Message sets (types.SequenceSet): a list of ranges [Min, Max] whose ends
\* are types.SequenceNumber strings: "*" is the last message, "" is nil,
\* anything else is parsed as a decimal number.
\* ------------------------------------------------------------------------
ParseUint == ("1" :> 1) @@ ("2" :> 2) @@ ("3" :> 3) @@ ("4" :> 4) @@ ("5" :> 5) @@ ("6" :> 6)

IsLast(sn) == sn = "*"
IsNil(sn) == sn = ""

\* SequenceNumber.Value: an error for "*", for "" and for a malformed number.
Value(sn) ==
    IF sn \in DOMAIN ParseUint THEN [err |-> FALSE, value |-> ParseUint[sn]]
    ELSE [err |-> TRUE, value |-> 0]

\* The loop of bitmessageSetByUID going on to the next range where the
\* lower value of a range is malformed.
RECURSIVE resolveByUIDSkipMalformed(_, _, _, _)
resolveByUIDSkipMalformed(st, U, set, msgs) ==
    IF set = <<>> THEN msgs
    ELSE LET msgRange == Head(set)
             start    == Value(msgRange.Min).value
             end      == Value(msgRange.Max).value
             rest(m)  == resolveByUIDSkipMalformed(st, U, Tail(set), m)
         IN  IF IsLast(msgRange.Min) THEN rest(Append(msgs, lastBitmessage(st, U)))
             ELSE IF Value(msgRange.Min).err THEN rest(msgs)
             ELSE IF IsNil(msgRange.Max) THEN rest(Append(msgs, bmsgByUID(st, U, start)))
             ELSE IF IsLast(msgRange.Max) THEN rest(msgs \o bitmessagesSinceUID(st, U, start))
             ELSE IF Value(msgRange.Max).err THEN msgs
             ELSE rest(msgs \o bitmessagesByUIDRange(st, U, start, end))

\* The loop of bitmessageSetByUID (426-465); msgs is what was accumulated.
RECURSIVE resolveByUID(_, _, _, _)
resolveByUID(st, U, set, msgs) ==
    IF set = <<>> THEN msgs
    ELSE LET msgRange == Head(set)
             start    == Value(msgRange.Min).value
             end      == Value(msgRange.Max).value
         IN  IF IsLast(msgRange.Min)
             THEN resolveByUID(st, U, Tail(set), Append(msgs, lastBitmessage(st, U)))
             ELSE IF Value(msgRange.Min).err THEN msgs
             ELSE IF IsNil(msgRange.Max)
             THEN resolveByUID(st, U, Tail(set), Append(msgs, bmsgByUID(st, U, start)))
             ELSE IF IsLast(msgRange.Max)
             THEN resolveByUID(st, U, Tail(set), msgs \o bitmessagesSinceUID(st, U, start))
             ELSE IF Value(msgRange.Max).err THEN msgs
             ELSE resolveByUID(st, U, Tail(set),
                               msgs \o bitmessagesByUIDRange(st, U, start, end))

\* bitmessageSetByUID without the early return on an empty mailbox.
bitmessageSetByUIDNoEmptyCheck(st, U, set) == resolveByUID(st, U, set, <<>>)

\* bitmessageSetByUID (418-466).
bitmessageSetByUID(st, U, set) ==
    IF messages(U) = 0 THEN <<>> ELSE resolveByUID(st, U, set, <<>>)

\* The loop of bitmessageSetBySequenceNumber (478-516).  start is the
\* identifier found at position startIndex (494) and is then passed on as a
\* sequence number (499, 508, 514).
RECURSIVE resolveBySequenceNumber(_, _, _, _)
resolveBySequenceNumber(st, U, set, msgs) ==
    IF set = <<>> THEN msgs
    ELSE LET msgRange   == Head(set)
             startIndex == Value(msgRange.Min).value
             start      == At(U, startIndex - 1)
             end        == Value(msgRange.Max).value
         IN  IF IsLast(msgRange.Min)
             THEN resolveBySequenceNumber(st, U, Tail(set),
                                          Append(msgs, lastBitmessage(st, U)))
             ELSE IF Value(msgRange.Min).err THEN msgs
             ELSE IF startIndex < 1 \/ startIndex > messages(U) THEN msgs
             ELSE IF IsNil(msgRange.Max)
             THEN resolveBySequenceNumber(st, U, Tail(set),
                      Append(msgs, bitmessageBySequenceNumber(st, U, start)))
             ELSE IF IsLast(msgRange.Max)
             THEN resolveBySequenceNumber(st, U, Tail(set),
                      msgs \o bitmessagesSinceSequenceNumber(st, U, start))
             ELSE IF Value(msgRange.Max).err THEN msgs
             ELSE resolveBySequenceNumber(st, U, Tail(set),
                      msgs \o bitmessagesBySequenceRange(st, U, start, end))

\* bitmessageSetBySequenceNumber (470-519).
bitmessageSetBySequenceNumber(st, U, set) ==
    IF messages(U) = 0 THEN <<>> ELSE resolveBySequenceNumber(st, U, set, <<>>)

\* ------------------------------------------------------------------------
\* Mutations.  A box state is the record
\*   [store, nextID, uids, numRecent, numUnseen, nextUID];
\* store and nextID belong to the store, the rest is the cache of the
\* mailbox struct (122-126).  numRecent and numUnseen are uint32: a value
\* below zero stands for the wrapped value 2^32 + n.
\* ------------------------------------------------------------------------
\* The store part of saveBitmessage (625-657).  insFails and delFails say
\* whether the store's insert and delete return an error in this call.
\*  - UID = 0: InsertNewMessage; its error is returned.
\*  - UID # 0: DeleteMessage, whose error is returned; then GetMessage finds
\*    nothing under the identifier; then InsertMessage, whose error is
\*    assigned to the err declared inside the else block (635) and so is not
\*    the err tested at 653.
\* DeleteMessage of an identifier the store does not hold leaves the store
\* as it is.
saveStore(b, msg, insFails, delFails) ==
    IF msg.UID = 0
    THEN IF insFails THEN [err |-> TRUE, uid |-> 0, store |-> b.store, nextID |-> b.nextID]
         ELSE [err |-> FALSE, uid |-> b.nextID,
               store |-> InsertMessage(b.store, b.nextID, Serialize(msg)),
               nextID |-> b.nextID + 1]
    ELSE IF delFails
         THEN [err |-> TRUE, uid |-> msg.UID, store |-> b.store, nextID |-> b.nextID]
         ELSE [err |-> FALSE, uid |-> msg.UID,
               store |-> IF insFails THEN DeleteMessage(b.store, msg.UID)
                         ELSE InsertMessage(DeleteMessage(b.store, msg.UID),
                                            msg.UID, Serialize(msg)),
               nextID |-> b.nextID]

\* The refresh at the end of saveBitmessage (661-665) applied to box b.
refreshBox(b, failAt) ==
    LET r == refresh(b.store, b.nextID, b.uids, failAt)
    IN  [b EXCEPT !.uids = r.uids, !.numRecent = r.numRecent,
                  !.numUnseen = r.numUnseen, !.nextUID = r.nextUID]

\* saveBitmessage (623-668): the new box, the error and the identifier the
\* message ends up with.
saveBitmessage(b, msg, insFails, delFails, failAt) ==
    LET w  == saveStore(b, msg, insFails, delFails)
        b1 == [b EXCEPT !.store = w.store, !.nextID = w.nextID]
    IN  IF w.err THEN [box |-> b, err |-> TRUE, uid |-> w.uid]
        ELSE [box |-> refreshBox(b1, failAt),
              err |-> refreshScan(b1.store, b1.nextID, failAt).err, uid |-> w.uid]

\* The removal loop of DeleteBitmessageByUID (613-618) that moves the last
\* identifier into the freed slot.
removeUidSwapLast(U, id) ==
    LET i == CHOOSE k \in 1..Len(U) : U[k] = id /\ \A j \in 1..(k - 1) : U[j] # id
    IN  IF \A k \in 1..Len(U) : U[k] # id THEN U
        ELSE [k \in 1..(Len(U) - 1) |-> IF k = i THEN U[Len(U)] ELSE U[k]]

\* The removal loop of DeleteBitmessageByUID (613-618): the first
\* occurrence of id is cut out of the index.
removeUid(U, id) ==
    LET i == CHOOSE k \in 1..Len(U) : U[k] = id /\ \A j \in 1..(k - 1) : U[j] # id
    IN  IF \A k \in 1..Len(U) : U[k] # id THEN U
        ELSE SubSeq(U, 1, i - 1) \o SubSeq(U, i + 1, Len(U))

\* The store delete of DeleteBitmessageByUID without the lookup that
\* returns early when the identifier is not indexed.
deleteStoreUnchecked(b, id, delFails) ==
    IF delFails THEN [box |-> b, err |-> TRUE, deleted |-> FALSE]
    ELSE [box |-> [b EXCEPT !.store = DeleteMessage(b.store, id)],
          err |-> FALSE, deleted |-> TRUE]

\* The store delete and the counter updates of DeleteBitmessageByUID
\* (591-611); deleted says whether the removal loop is reached.  The
\* counters are uint32 and the decrements (604, 608) are unguarded: a
\* counter at 0 wraps to 2^32 - 1.  The model keeps the counters as
\* integers, and a negative value n stands for the wrapped value 2^32 + n
\* (nothing compares the counters, and refresh sets them afresh from 0).
deleteStore(b, id, delFails) ==
    LET bmsg == bmsgByUID(b.store, b.uids, id)
    IN  IF bmsg.isNil THEN [box |-> b, err |-> FALSE, deleted |-> FALSE]
        ELSE IF delFails THEN [box |-> b, err |-> TRUE, deleted |-> FALSE]
        ELSE [box |-> [b EXCEPT
                          !.store = DeleteMessage(b.store, id),
                          !.numRecent = IF FlagRecent \in bmsg.Flags THEN @ - 1 ELSE @,
                          !.numUnseen = IF FlagSeen \notin bmsg.Flags THEN @ - 1 ELSE @],
              err |-> FALSE, deleted |-> TRUE]

\* DeleteBitmessageByUID (587-620) without the locking.
deleteBitmessageByUID(b, id, delFails) ==
    LET d == deleteStore(b, id, delFails)
    IN  IF d.deleted
        THEN [box |-> [d.box EXCEPT !.uids = removeUid(d.box.uids, id)], err |-> FALSE]
        ELSE [box |-> d.box, err |-> d.err]

\* ------------------------------------------------------------------------
\* State
\* ------------------------------------------------------------------------
VARIABLES
    store,      \* the folder's stored messages (box.mbox), id -> bytes
    nextID,     \* the store's next identifier (box.mbox.NextID())
    uids,       \* box.uids
    numRecent,  \* box.numRecent
    numUnseen,  \* box.numUnseen
    nextUID,    \* box.nextUID
    last,       \* SpecQuery: the last lookup, its argument and its result
    mutex,      \* the RWMutex: its writer (0 if none) and its readers
    pc,         \* SpecConc: where each caller is in its operation
    loc,        \* SpecConc: each caller's local variables
    srch,       \* SpecSearch: the run of GetSequenceNumber
    mgr,        \* SpecKeys: the key Manager and the goroutines that call it
    rwm,        \* SpecLock: the RWMutex with its waiting writers, and its callers
    cli         \* SpecRPC: the RPC Client and the goroutines around it

vars == <<store, nextID, uids, numRecent, numUnseen, nextUID, last, mutex, pc, loc, srch, sub, mgr, rwm, cli>>

boxVars == <<store, nextID, uids, numRecent, numUnseen, nextUID>>

Box ==
    [store |-> store, nextID |-> nextID, uids |-> uids,
     numRecent |-> numRecent, numUnseen |-> numUnseen, nextUID |-> nextUID]

SetBox(b) ==
    /\ store' = b.store
    /\ nextID' = b.nextID
    /\ uids' = b.uids
    /\ numRecent' = b.numRecent
    /\ numUnseen' = b.numUnseen
    /\ nextUID' = b.nextUID

\* Inputs of the operations: the messages handed to AddNew and Save are
\* drawn from a few contents.  Two share an ack, two share a receipt time
\* and differ in their flags, one is flagged for deletion.
Contents ==
    {[Flags |-> {FlagRecent},  Ack |-> 1, Time |-> 1],
     [Flags |-> {FlagSeen},    Ack |-> 1, Time |-> 1],
     [Flags |-> {FlagDeleted}, Ack |-> 2, Time |-> 1],
     [Flags |-> {FlagSeen},    Ack |-> 2, Time |-> 2]}
Acks == {c.Ack : c \in Contents}
UIDArgs == 1..(MaxUID + 1)

\* What the store does wrong during one operation: nothing, or one of its
\* calls returns an error (an insert, a delete, or the enumeration of the
\* refresh after scan entries were visited), or the insert and then the
\* enumeration do (on a replace the refresh still runs after a failed
\* insert).
NoFault == [ins |-> FALSE, del |-> FALSE, scan |-> NoFail]
Faults ==
    {NoFault, [NoFault EXCEPT !.ins = TRUE], [NoFault EXCEPT !.del = TRUE]}
    \cup {[NoFault EXCEPT !.scan = k] : k \in 0..MaxUID}
    \cup {[NoFault EXCEPT !.ins = TRUE, !.scan = k] : k \in 0..MaxUID}

\* The points at which the enumeration of store st can fail.
FailPoints(st) == {NoFail} \cup (0..Cardinality(DOMAIN st))

Callers == {1, 2}
\* The Manager, the lock and the client of the specifications that do not
\* use them.
NoManager == <<>>
NoLock == <<>>
NoClient == <<>>

NoCall == [op |-> "none", arg |-> <<>>, res |-> <<>>]
Idle == [c \in Callers |-> "idle"]
NoLocal == [uid |-> 0, msg |-> NilBM, list |-> <<>>, del |-> <<>>,
            msgs |-> <<>>, removed |-> {}]
NoLocals == [c \in Callers |-> NoLocal]
FreeMutex == [writer |-> 0, readers |-> {}]
NoSearch == [U |-> <<>>, uid |-> 0, phase |-> "off", iters |-> 0, s |-> Returned(0)]

\* NewMailbox (804-819) over an empty folder: the first refresh.
NewMailbox ==
    refreshBox([store |-> EmptyStore, nextID |-> 1, uids |-> <<>>,
                numRecent |-> 0, numUnseen |-> 0, nextUID |-> 0], NoFail)

InitBox ==
    /\ store = NewMailbox.store
    /\ nextID = NewMailbox.nextID
    /\ uids = NewMailbox.uids
    /\ numRecent = NewMailbox.numRecent
    /\ numUnseen = NewMailbox.numUnseen
    /\ nextUID = NewMailbox.nextUID

Init ==
    /\ InitBox
    /\ last = NoCall
    /\ mutex = FreeMutex
    /\ pc = Idle
    /\ loc = NoLocals
    /\ srch = NoSearch
    /\ sub = NoSub
    /\ mgr = NoManager
    /\ rwm = NoLock
    /\ cli = NoClient

\* ------------------------------------------------------------------------
\* Spec: one caller; every public operation runs from its Lock to its
\* Unlock in one step.
\* ------------------------------------------------------------------------
\* The message AddNew builds (528-537).
newBitmessage(U, c) ==
    [isNil |-> FALSE, UID |-> 0, SequenceNumber |-> messages(U) + 1,
     Flags |-> c.Flags, TimeReceived |-> c.Time, Ack |-> c.Ack, AckReceived |-> FALSE]

\* The fault f can happen on the store that the write of msg leaves: the
\* enumeration fails only if the refresh is reached.
FaultFits(b, msg, f) ==
    /\ f.scan \in FailPoints(saveStore(b, msg, f.ins, f.del).store)
    /\ saveStore(b, msg, f.ins, f.del).err => f.scan = NoFail

\* AddNew (522-542): the outcome of saveBitmessage is dropped, nil is
\* returned.
AddNew(c, f) ==
    LET msg == newBitmessage(uids, c)
        r   == saveBitmessage(Box, msg, f.ins, f.del, f.scan)
    IN  /\ nextID <= MaxUID
        /\ ~f.del
        /\ FaultFits(Box, msg, f)
        /\ SetBox(r.box)
        /\ last' = NoCall

\* The message Save builds from the e-mail (672-690, 705): the state of the
\* previous version is kept on a replace.
emailBitmessage(email, previous) ==
    [isNil |-> FALSE, UID |-> email.ImapUID, SequenceNumber |-> 0,
     Flags |-> email.ImapFlags, TimeReceived |-> email.Date, Ack |-> email.Ack,
     AckReceived |-> IF email.ImapUID # 0 THEN previous.AckReceived ELSE FALSE]

\* The checks of Save on a replace without the one of the date.
saveInvalidDateUnchecked(email, previous) ==
    email.ImapUID # 0 /\ previous.isNil

\* The checks of Save on a replace (692-703).
saveInvalid(email, previous) ==
    email.ImapUID # 0 /\ (previous.isNil \/ previous.TimeReceived # email.Date)

\* Save (671-711).
Save(email, f) ==
    LET previous == bmsgByUID(store, uids, email.ImapUID)
        msg      == emailBitmessage(email, previous)
        r        == saveBitmessage(Box, msg, f.ins, f.del, f.scan)
    IN  IF saveInvalid(email, previous)
        THEN /\ f = NoFault
             /\ UNCHANGED boxVars
             /\ last' = NoCall
        ELSE /\ email.ImapUID = 0 => nextID <= MaxUID /\ ~f.del
             /\ FaultFits(Box, msg, f)
             /\ SetBox(r.box)
             /\ last' = NoCall

\* DeleteBitmessageByUID (587-620).
DeleteBitmessageByUID(id, delFails) ==
    LET r == deleteBitmessageByUID(Box, id, delFails)
    IN  /\ SetBox(r.box)
        /\ last' = NoCall

\* The scan of DeleteFlaggedMessages (719-727).
flaggedMessages(st, U) ==
    SelectSeq([i \in 1..Len(U) |-> bmsgByUID(st, U, U[i])],
              LAMBDA b : ~b.isNil /\ FlagDeleted \in b.Flags)

\* The delete loop of DeleteFlaggedMessages (732-746): failK is the number
\* of deletes that succeed before the store fails (NoFail: it never does).
RECURSIVE deleteEach(_, _, _, _)
deleteEach(b, dels, failK, done) ==
    IF dels = <<>> THEN [box |-> b, err |-> FALSE, msgs |-> done]
    ELSE LET r == deleteBitmessageByUID(b, Head(dels).UID, failK = 0)
         IN  IF r.err THEN [box |-> r.box, err |-> TRUE, msgs |-> <<>>]
             ELSE deleteEach(r.box, Tail(dels),
                             IF failK = NoFail THEN NoFail ELSE failK - 1,
                             Append(done, Head(dels)))

\* DeleteFlaggedMessages (714-749).
DeleteFlaggedMessages(failK) ==
    LET dels == flaggedMessages(store, uids)
        r    == deleteEach(Box, dels, failK, <<>>)
    IN  /\ failK # NoFail => failK < Len(dels)
        /\ SetBox(r.box)
        /\ last' = NoCall

\* The callback of ReceiveAck (761-778) on the entries ids: an entry that
\* does not decode ends the enumeration with its error (762-765), one the
\* membership predicate rejects is passed over, the first with the given
\* ack ends the enumeration and is the match.
RECURSIVE ackScanFrom(_, _, _)
ackScanFrom(st, ids, ack) ==
    IF ids = <<>> THEN NilBM
    ELSE IF DecodeFails(st[Head(ids)]) THEN NilBM
    ELSE IF subRejects(DecodeBitmessage(st[Head(ids)])) THEN ackScanFrom(st, Tail(ids), ack)
    ELSE IF DecodeBitmessage(st[Head(ids)]).Ack = ack THEN DecodeBitmessage(st[Head(ids)])
    ELSE ackScanFrom(st, Tail(ids), ack)

\* The scan of ReceiveAck (761-778): the match as DecodeBitmessage returned
\* it; NilBM if there is none.
ackScan(st, ack) == ackScanFrom(st, ForEachMessage(st, 0, 0), ack)

\* ReceiveAck (758-790): the outcome of saveBitmessage is dropped.
ReceiveAck(ack, f) ==
    LET ackMatch == ackScan(store, ack)
        marked   == [ackMatch EXCEPT !.AckReceived = TRUE]
        r        == saveBitmessage(Box, marked, f.ins, f.del, f.scan)
    IN  IF ackMatch.isNil
        THEN /\ f = NoFault
             /\ UNCHANGED boxVars
             /\ last' = NoCall
        ELSE /\ marked.UID = 0 => nextID <= MaxUID /\ ~f.del
             /\ FaultFits(Box, marked, f)
             /\ SetBox(r.box)
             /\ last' = NoCall

\* Inputs of Save: the uid of the e-mail and its content.
Emails ==
    {[ImapUID |-> u, ImapFlags |-> c.Flags, Date |-> c.Time, Ack |-> c.Ack] :
        u \in 0..MaxUID, c \in Contents}

seqVars == <<mutex, pc, loc, srch, sub, mgr, rwm, cli>>

CallAddNew ==
    /\ \E c \in Contents, f \in Faults : AddNew(c, f)
    /\ UNCHANGED seqVars

CallSave ==
    /\ \E email \in Emails, f \in Faults : Save(email, f)
    /\ UNCHANGED seqVars

CallDeleteBitmessageByUID ==
    /\ \E id \in UIDArgs, delFails \in BOOLEAN : DeleteBitmessageByUID(id, delFails)
    /\ UNCHANGED seqVars

CallDeleteFlaggedMessages ==
    /\ \E failK \in {NoFail} \cup (0..MaxUID) : DeleteFlaggedMessages(failK)
    /\ UNCHANGED seqVars

CallReceiveAck ==
    /\ \E ack \in Acks, f \in Faults : ReceiveAck(ack, f)
    /\ UNCHANGED seqVars

Next ==
    \/ CallAddNew
    \/ CallSave
    \/ CallDeleteBitmessageByUID
    \/ CallDeleteFlaggedMessages
    \/ CallReceiveAck

Spec == Init /\ [][Next]_vars

\* ------------------------------------------------------------------------
\* SpecQuery: the lookups, on every index the mutations can leave behind.
\* A lookup changes nothing in the box; it is recorded in last, and the
\* next mutation clears the record.
\* ------------------------------------------------------------------------
Numerals == {sn \in DOMAIN ParseUint : ParseUint[sn] <= MaxUID + 1}
Ranges == [Min : {"*", "x"} \cup Numerals, Max : {"", "*", "x"} \cup Numerals]
PairRanges ==
    {r \in Ranges : r.Min \in {"1", "2"} /\ r.Max \in {"", "*", "2"}}
    \cup {[Min |-> "*", Max |-> ""], [Min |-> "x", Max |-> ""]}
SetExprs == {<<r>> : r \in Ranges} \cup {<<r1, r2>> : r1, r2 \in PairRanges}

Lookup(op, arg, res) == last' = [op |-> op, arg |-> arg, res |-> res]

\* BitmessageByUID (308-313) and MessageByUID (317-330).
CallBitmessageByUID ==
    /\ last = NoCall
    /\ \E uid \in UIDArgs : Lookup("ByUID", <<uid>>, <<bmsgByUID(store, uids, uid)>>)
    /\ UNCHANGED <<boxVars, seqVars>>

\* MessageBySequenceNumber (269-284).
CallMessageBySequenceNumber ==
    /\ last = NoCall
    /\ \E seqno \in 0..(MaxUID + 1) :
          Lookup("BySequenceNumber", <<seqno>>,
                 <<bitmessageBySequenceNumber(store, uids, seqno)>>)
    /\ UNCHANGED <<boxVars, seqVars>>

\* LastUID (217-222).
CallLastUID ==
    /\ last = NoCall
    /\ Lookup("LastUID", <<>>, <<LastUID(uids)>>)
    /\ UNCHANGED <<boxVars, seqVars>>

\* MessageSetByUID (547-563).
CallMessageSetByUID ==
    /\ last = NoCall
    /\ \E set \in SetExprs : Lookup("SetByUID", set, bitmessageSetByUID(store, uids, set))
    /\ UNCHANGED <<boxVars, seqVars>>

\* MessageSetBySequenceNumber (568-584).
CallMessageSetBySequenceNumber ==
    /\ last = NoCall
    /\ \E set \in SetExprs :
          Lookup("SetBySequenceNumber", set,
                 bitmessageSetBySequenceNumber(store, uids, set))
    /\ UNCHANGED <<boxVars, seqVars>>

\* The mutations that shape the index: messages of one content are added
\* and saved again (the store may fail) and deleted.
QueryContent == CHOOSE c \in Contents : c.Flags = {FlagRecent}

QueryAddNew ==
    /\ \E f \in Faults : AddNew(QueryContent, f)
    /\ UNCHANGED seqVars

QueryDelete ==
    /\ \E id \in UIDArgs : DeleteBitmessageByUID(id, FALSE)
    /\ UNCHANGED seqVars

\* A message of the folder is saved again with the content it has; the
\* insert of the store may fail, and then the refresh too.
QuerySave ==
    /\ \E u \in 1..MaxUID, f \in {NoFault, [NoFault EXCEPT !.ins = TRUE],
                                   [NoFault EXCEPT !.ins = TRUE, !.scan = 0]} :
          Save([ImapUID |-> u, ImapFlags |-> QueryContent.Flags,
                Date |-> QueryContent.Time, Ack |-> QueryContent.Ack], f)
    /\ UNCHANGED seqVars

NextQuery ==
    \/ QueryAddNew
    \/ QueryDelete
    \/ QuerySave
    \/ CallLastUID
    \/ CallBitmessageByUID
    \/ CallMessageBySequenceNumber
    \/ CallMessageSetByUID
    \/ CallMessageSetBySequenceNumber

SpecQuery == Init /\ [][NextQuery]_vars

\* ------------------------------------------------------------------------
\* SpecCalls: one caller; AddNew, Save and the two deletes are one step
\* each, recorded in last with their arguments and with what they return
\* to the caller; Return ends the call and clears the record.
\* ------------------------------------------------------------------------
CallEmails == {email \in Emails : email.ImapUID <= CallMaxUID}
CallUIDArgs == 1..(CallMaxUID + 1)

Called(op, arg, res) == last' = [op |-> op, arg |-> arg, res |-> res]

\* AddNew (522-542): bmsg carries the identifier that saveBitmessage gave
\* it; the return value is nil whatever saveBitmessage returned (539-541);
\* saved records whether saveBitmessage returned nil.
RetAddNew ==
    /\ last = NoCall
    /\ nextID <= CallMaxUID
    /\ \E c \in Contents, f \in Faults :
          LET msg == newBitmessage(uids, c)
              r   == saveBitmessage(Box, msg, f.ins, f.del, f.scan)
          IN  /\ ~f.del
              /\ FaultFits(Box, msg, f)
              /\ SetBox(r.box)
              /\ Called("AddNew", <<c>>, [err |-> FALSE, uid |-> r.uid, saved |-> ~r.err])
    /\ UNCHANGED seqVars

\* Save (671-711): the error of the checks or of saveBitmessage is returned.
RetSave ==
    /\ last = NoCall
    /\ \E email \in CallEmails, f \in Faults :
          LET previous == bmsgByUID(store, uids, email.ImapUID)
              msg      == emailBitmessage(email, previous)
              r        == saveBitmessage(Box, msg, f.ins, f.del, f.scan)
          IN  IF saveInvalid(email, previous)
              THEN /\ f = NoFault
                   /\ UNCHANGED boxVars
                   /\ Called("Save", <<email>>, [err |-> TRUE, uid |-> email.ImapUID])
              ELSE /\ email.ImapUID = 0 => nextID <= CallMaxUID /\ ~f.del
                   /\ FaultFits(Box, msg, f)
                   /\ SetBox(r.box)
                   /\ Called("Save", <<email>>, [err |-> r.err, uid |-> r.uid])
    /\ UNCHANGED seqVars

\* DeleteBitmessageByUID (587-620).
RetDeleteBitmessageByUID ==
    /\ last = NoCall
    /\ \E id \in CallUIDArgs, delFails \in BOOLEAN :
          LET r == deleteBitmessageByUID(Box, id, delFails)
          IN  /\ SetBox(r.box)
              /\ Called("Delete", <<id>>, [err |-> r.err, uid |-> id])
    /\ UNCHANGED seqVars

\* DeleteFlaggedMessages (714-749): the messages of the snapshot are
\* returned, or nil and the error of the delete that failed.
RetDeleteFlaggedMessages ==
    /\ last = NoCall
    /\ \E failK \in {NoFail} \cup (0..CallMaxUID) :
          LET dels == flaggedMessages(store, uids)
              r    == deleteEach(Box, dels, failK, <<>>)
          IN  /\ failK # NoFail => failK < Len(dels)
              /\ SetBox(r.box)
              /\ Called("DeleteFlagged", <<>>,
                        [err |-> r.err, uid |-> 0,
                         msgs |-> [i \in 1..Len(r.msgs) |-> r.msgs[i].UID]])
    /\ UNCHANGED seqVars

\* The call is over.
Return ==
    /\ last # NoCall
    /\ last' = NoCall
    /\ UNCHANGED <<boxVars, seqVars>>

NextCalls ==
    \/ RetAddNew
    \/ RetSave
    \/ RetDeleteBitmessageByUID
    \/ RetDeleteFlaggedMessages
    \/ Return

SpecCalls == Init /\ [][NextCalls]_vars

\* ------------------------------------------------------------------------
\* SpecShared: the folder is shared.  Other agents (the SMTP server, bmd,
\* sibling mailboxes over the same folder) insert entries that the
\* membership predicate may reject or that do not decode.  The mailbox is
\* built with or without a predicate; its calls are recorded in last as in
\* SpecCalls.  The store itself returns no error here.
\* ------------------------------------------------------------------------
SharedContents == {c \in Contents : c.Time = 1}
SharedEmails == {email \in Emails : email.ImapUID <= SharedMaxUID /\ email.Date = 1}
Subs == {NoSub, [set |-> TRUE, acks |-> {1}]}

InitShared ==
    /\ InitBox
    /\ last = NoCall
    /\ mutex = FreeMutex
    /\ pc = Idle
    /\ loc = NoLocals
    /\ srch = NoSearch
    /\ sub \in Subs
    /\ mgr = NoManager
    /\ rwm = NoLock
    /\ cli = NoClient

\* Another agent inserts an entry into the folder; the cache of this
\* mailbox is not told.
ForeignInsert ==
    /\ last = NoCall
    /\ nextID <= SharedMaxUID
    /\ \E bytes \in {Serialize(newBitmessage(<<>>, c)) : c \in SharedContents} \cup {Garbage} :
          store' = InsertMessage(store, nextID, bytes)
    /\ nextID' = nextID + 1
    /\ UNCHANGED <<uids, numRecent, numUnseen, nextUID, last, seqVars>>

\* AddNew (522-542).
SharedAddNew ==
    /\ last = NoCall
    /\ nextID <= SharedMaxUID
    /\ \E c \in SharedContents :
          LET r == saveBitmessage(Box, newBitmessage(uids, c), FALSE, FALSE, NoFail)
          IN  /\ SetBox(r.box)
              /\ Called("AddNew", <<c>>, [err |-> FALSE, uid |-> r.uid, saved |-> ~r.err])
    /\ UNCHANGED seqVars

\* Save (671-711).
SharedSave ==
    /\ last = NoCall
    /\ \E email \in SharedEmails :
          LET previous == bmsgByUID(store, uids, email.ImapUID)
              r        == saveBitmessage(Box, emailBitmessage(email, previous),
                                         FALSE, FALSE, NoFail)
          IN  IF saveInvalid(email, previous)
              THEN /\ UNCHANGED boxVars
                   /\ Called("Save", <<email>>, [err |-> TRUE, uid |-> email.ImapUID])
              ELSE /\ email.ImapUID = 0 => nextID <= SharedMaxUID
                   /\ SetBox(r.box)
                   /\ Called("Save", <<email>>, [err |-> r.err, uid |-> r.uid])
    /\ UNCHANGED seqVars

\* DeleteBitmessageByUID (587-620).
SharedDelete ==
    /\ last = NoCall
    /\ \E id \in 1..SharedMaxUID :
          LET r == deleteBitmessageByUID(Box, id, FALSE)
          IN  /\ SetBox(r.box)
              /\ Called("Delete", <<id>>, [err |-> r.err, uid |-> id])
    /\ UNCHANGED seqVars

\* ReceiveAck (758-790): the matched message is returned, nil if there is
\* none; what saveBitmessage returns is dropped.
SharedReceiveAck ==
    /\ last = NoCall
    /\ \E ack \in Acks :
          LET ackMatch == ackScan(store, ack)
              marked   == [ackMatch EXCEPT !.AckReceived = TRUE]
              r        == saveBitmessage(Box, marked, FALSE, FALSE, NoFail)
          IN  IF ackMatch.isNil
              THEN /\ UNCHANGED boxVars
                   /\ Called("ReceiveAck", <<ack>>, [err |-> FALSE, uid |-> 0, msg |-> NilBM])
              ELSE /\ marked.UID = 0 => nextID <= SharedMaxUID
                   /\ SetBox(r.box)
                   /\ Called("ReceiveAck", <<ack>>,
                             [err |-> FALSE, uid |-> r.uid, msg |-> [marked EXCEPT !.UID = r.uid]])
    /\ UNCHANGED seqVars

NextShared ==
    \/ ForeignInsert
    \/ SharedAddNew
    \/ SharedSave
    \/ SharedDelete
    \/ SharedReceiveAck
    \/ Return

SpecShared == InitShared /\ [][NextShared]_vars

\* ------------------------------------------------------------------------
\* SpecConc: the callers of Callers run the public operations concurrently.
\* A step is the code between two points at which the operation takes or
\* releases the RWMutex, and the code under the write lock is cut once more
\* where the cache is half updated: after the store write, after the
\* counters were recomputed, before the index is replaced.
\* loc[p]: msg is the message being saved, list the identifiers collected
\* by refresh, uid the identifier being deleted, del the identifiers that
\* DeleteFlaggedMessages has still to delete, msgs the identifiers of the
\* messages it has put on the list it returns, removed the identifiers
\* whose store entry the call has deleted itself.
\* ------------------------------------------------------------------------
\* Lock() succeeds at once with the mutex ignoring the readers.
CanLockOverReaders(m) == m.writer = 0

\* sync.RWMutex: Lock() goes through when there is no writer and no reader,
\* RLock() when there is no writer.
CanLock(m) == m.writer = 0 /\ m.readers = {}
CanRLock(m) == m.writer = 0

Locked(p) == [writer |-> p, readers |-> {}]

ConcContents == {c \in Contents : c.Time = 1 /\ c.Flags # {FlagRecent}}
ConcEmails ==
    {[ImapUID |-> u, ImapFlags |-> c.Flags, Date |-> c.Time, Ack |-> c.Ack] :
        u \in 0..ConcMaxUID, c \in ConcContents}
WriteFaults == {f \in Faults : f.scan = NoFail}

\* Lock() and the store part of saveBitmessage (625-657) for message msg.
\* On an error the lock is released and the operation is over.
StoreWrite(p, msg, f) ==
    LET w == saveStore(Box, msg, f.ins, f.del)
    IN  /\ CanLock(mutex)
        /\ msg.UID = 0 => nextID <= ConcMaxUID /\ ~f.del
        /\ store' = w.store
        /\ nextID' = w.nextID
        /\ UNCHANGED <<uids, numRecent, numUnseen, nextUID>>
        /\ IF w.err
           THEN /\ mutex' = mutex
                /\ pc' = [pc EXCEPT ![p] = "idle"]
                /\ loc' = [loc EXCEPT ![p] = NoLocal]
           ELSE /\ mutex' = Locked(p)
                /\ pc' = [pc EXCEPT ![p] = "refresh"]
                /\ loc' = [loc EXCEPT ![p] = [NoLocal EXCEPT !.msg = [msg EXCEPT !.UID = w.uid]]]

\* AddNew (522-542) up to the store write.
ConcAddNew ==
    /\ \E p \in Callers, c \in ConcContents, f \in WriteFaults :
          /\ pc[p] = "idle"
          /\ StoreWrite(p, newBitmessage(uids, c), f)
    /\ UNCHANGED <<last, srch, sub, mgr, rwm, cli>>

\* Save (671-706): the message is built and, on a replace, checked against
\* the previous version, which BitmessageByUID reads under the read lock.
ConcSaveCheck ==
    /\ \E p \in Callers, email \in ConcEmails :
          LET previous == bmsgByUID(store, uids, email.ImapUID)
          IN  /\ pc[p] = "idle"
              /\ email.ImapUID # 0 => CanRLock(mutex)
              /\ IF saveInvalid(email, previous)
                 THEN UNCHANGED <<pc, loc>>
                 ELSE /\ pc' = [pc EXCEPT ![p] = "save_lock"]
                      /\ loc' = [loc EXCEPT ![p] =
                                   [NoLocal EXCEPT !.msg = emailBitmessage(email, previous)]]
    /\ UNCHANGED <<boxVars, mutex, last, srch, sub, mgr, rwm, cli>>

\* Save (708-710): Lock() and the store part of saveBitmessage.
ConcSaveWrite ==
    /\ \E p \in Callers, f \in WriteFaults :
          /\ pc[p] = "save_lock"
          /\ StoreWrite(p, loc[p].msg, f)
    /\ UNCHANGED <<last, srch, sub, mgr, rwm, cli>>

\* ReceiveAck (759-783): the scan of the store, which takes no lock.
ConcAckScan ==
    /\ \E p \in Callers, ack \in Acks :
          /\ pc[p] = "idle"
          /\ ~ackScan(store, ack).isNil
          /\ pc' = [pc EXCEPT ![p] = "ack_lock"]
          /\ loc' = [loc EXCEPT ![p] =
                       [NoLocal EXCEPT !.msg = [ackScan(store, ack) EXCEPT !.AckReceived = TRUE]]]
    /\ UNCHANGED <<boxVars, mutex, last, srch, sub, mgr, rwm, cli>>

\* ReceiveAck (785-786): Lock() and the store part of saveBitmessage.
ConcAckWrite ==
    /\ \E p \in Callers, f \in WriteFaults :
          /\ pc[p] = "ack_lock"
          /\ StoreWrite(p, loc[p].msg, f)
    /\ UNCHANGED <<last, srch, sub, mgr, rwm, cli>>

\* refresh (165-191) under the write lock: the counters are recomputed; on
\* an error of the enumeration the operation returns and unlocks.
ConcRefreshScan ==
    /\ \E p \in Callers, failAt \in FailPoints(store) :
          LET r == refreshScan(store, nextID, failAt)
          IN  /\ pc[p] = "refresh"
              /\ numRecent' = r.numRecent
              /\ numUnseen' = r.numUnseen
              /\ nextUID' = r.nextUID
              /\ IF r.err
                 THEN /\ mutex' = FreeMutex
                      /\ pc' = [pc EXCEPT ![p] = "idle"]
                      /\ loc' = [loc EXCEPT ![p] = NoLocal]
                 ELSE /\ mutex' = mutex
                      /\ pc' = [pc EXCEPT ![p] = "install"]
                      /\ loc' = [loc EXCEPT ![p].list = r.list]
    /\ UNCHANGED <<store, nextID, uids, last, srch, sub, mgr, rwm, cli>>

\* refresh (193-201) and the Unlock() of the operation.
ConcRefreshInstall ==
    /\ \E p \in Callers :
          /\ pc[p] = "install"
          /\ uids' = refreshInstall(uids, loc[p].list)
          /\ mutex' = FreeMutex
          /\ pc' = [pc EXCEPT ![p] = "idle"]
          /\ loc' = [loc EXCEPT ![p] = NoLocal]
    /\ UNCHANGED <<store, nextID, numRecent, numUnseen, nextUID, last, srch, sub, mgr, rwm, cli>>

\* Lock() and lines 591-611 of DeleteBitmessageByUID for identifier id,
\* called by p with the locals lc (the identifier heads lc.del); pcSkip is
\* where p goes when there is nothing to remove from the index.
DeleteStore(p, id, delFails, pcRemove, pcSkip, lc) ==
    LET d == deleteStore(Box, id, delFails)
    IN  /\ CanLock(mutex)
        /\ SetBox(d.box)
        /\ IF d.deleted
           THEN /\ mutex' = Locked(p)
                /\ pc' = [pc EXCEPT ![p] = pcRemove]
                /\ loc' = [loc EXCEPT ![p] =
                             [lc EXCEPT !.uid = id, !.removed = @ \cup {id}]]
           ELSE /\ mutex' = mutex
                /\ pc' = [pc EXCEPT ![p] = IF d.err THEN "idle" ELSE pcSkip]
                /\ loc' = [loc EXCEPT ![p] =
                             IF d.err THEN NoLocal ELSE [lc EXCEPT !.del = Tail(@)]]

\* DeleteBitmessageByUID (587-611).
ConcDelete ==
    /\ \E p \in Callers, id \in 1..ConcMaxUID, delFails \in BOOLEAN :
          /\ pc[p] = "idle"
          /\ DeleteStore(p, id, delFails, "remove", "idle", [NoLocal EXCEPT !.del = <<id>>])
    /\ UNCHANGED <<last, srch, sub, mgr, rwm, cli>>

\* DeleteBitmessageByUID (613-619) and its Unlock().
ConcRemove ==
    /\ \E p \in Callers :
          /\ pc[p] = "remove"
          /\ uids' = removeUid(uids, loc[p].uid)
          /\ mutex' = FreeMutex
          /\ pc' = [pc EXCEPT ![p] = "idle"]
          /\ loc' = [loc EXCEPT ![p] = NoLocal]
    /\ UNCHANGED <<store, nextID, numRecent, numUnseen, nextUID, last, srch, sub, mgr, rwm, cli>>

\* DeleteFlaggedMessages (715-728): the scan under the read lock.
ConcFlaggedScan ==
    /\ \E p \in Callers :
          LET dels == flaggedMessages(store, uids)
          IN  /\ pc[p] = "idle"
              /\ CanRLock(mutex)
              /\ dels # <<>>
              /\ pc' = [pc EXCEPT ![p] = "del_next"]
              /\ loc' = [loc EXCEPT ![p] =
                           [NoLocal EXCEPT !.del = [i \in 1..Len(dels) |-> dels[i].UID]]]
    /\ UNCHANGED <<boxVars, mutex, last, srch, sub, mgr, rwm, cli>>

\* DeleteFlaggedMessages (732-746): the next message of the snapshot is
\* put on the list to return (733-740), then DeleteBitmessageByUID runs up
\* to its counter updates; when it fails nil is returned (744).
ConcFlaggedDelete ==
    /\ \E p \in Callers, delFails \in BOOLEAN :
          /\ pc[p] = "del_next"
          /\ loc[p].del # <<>>
          /\ DeleteStore(p, Head(loc[p].del), delFails, "del_remove", "del_next",
                         [loc[p] EXCEPT !.msgs = Append(@, Head(loc[p].del))])
    /\ UNCHANGED <<last, srch, sub, mgr, rwm, cli>>

\* The removal from the index and the Unlock() of that call.
ConcFlaggedRemove ==
    /\ \E p \in Callers :
          /\ pc[p] = "del_remove"
          /\ uids' = removeUid(uids, loc[p].uid)
          /\ mutex' = FreeMutex
          /\ pc' = [pc EXCEPT ![p] = "del_next"]
          /\ loc' = [loc EXCEPT ![p] = [loc[p] EXCEPT !.uid = 0, !.del = Tail(@)]]
    /\ UNCHANGED <<store, nextID, numRecent, numUnseen, nextUID, last, srch, sub, mgr, rwm, cli>>

\* DeleteFlaggedMessages (748): the loop is over, msgs is returned.
ConcFlaggedReturn ==
    /\ \E p \in Callers :
          /\ pc[p] = "del_next"
          /\ loc[p].del = <<>>
          /\ pc' = [pc EXCEPT ![p] = "idle"]
          /\ loc' = [loc EXCEPT ![p] = NoLocal]
    /\ UNCHANGED <<boxVars, mutex, last, srch, sub, mgr, rwm, cli>>

\* A reading operation (Messages, Recent, Unseen, a lookup, a set
\* resolution): RLock() ...
ConcRLock ==
    /\ \E p \in Callers :
          /\ pc[p] = "idle"
          /\ CanRLock(mutex)
          /\ mutex' = [mutex EXCEPT !.readers = @ \cup {p}]
          /\ pc' = [pc EXCEPT ![p] = "reading"]
    /\ UNCHANGED <<boxVars, loc, last, srch, sub, mgr, rwm, cli>>

\* ... and RUnlock() once it has read the index and the counters.
ConcRUnlock ==
    /\ \E p \in Callers :
          /\ pc[p] = "reading"
          /\ mutex' = [mutex EXCEPT !.readers = @ \ {p}]
          /\ pc' = [pc EXCEPT ![p] = "idle"]
    /\ UNCHANGED <<boxVars, loc, last, srch, sub, mgr, rwm, cli>>

NextConc ==
    \/ ConcAddNew
    \/ ConcSaveCheck
    \/ ConcSaveWrite
    \/ ConcAckScan
    \/ ConcAckWrite
    \/ ConcRefreshScan
    \/ ConcRefreshInstall
    \/ ConcDelete
    \/ ConcRemove
    \/ ConcFlaggedScan
    \/ ConcFlaggedDelete
    \/ ConcFlaggedRemove
    \/ ConcFlaggedReturn
    \/ ConcRLock
    \/ ConcRUnlock

SpecConc == Init /\ [][NextConc]_vars

\* ------------------------------------------------------------------------
\* SpecSearch: GetSequenceNumber(uid) on the index U, one step for the
\* code before the loop and one step per iteration of the loop.
\* ------------------------------------------------------------------------
\* Every strictly ascending sequence over 1..SearchMax, and the index
\* <<5, 10, 15>>.
SearchSeqs == {Ascending(S) : S \in SUBSET (1..SearchMax)} \cup {<<5, 10, 15>>}
SearchTargets == (0..(SearchMax + 1)) \cup {7, 10, 20}

InitSearch ==
    /\ InitBox
    /\ last = NoCall
    /\ mutex = FreeMutex
    /\ pc = Idle
    /\ loc = NoLocals
    /\ srch \in {[U |-> U, uid |-> t, phase |-> "call", iters |-> 0, s |-> Returned(0)] :
                    U \in SearchSeqs, t \in SearchTargets}
    /\ sub = NoSub
    /\ mgr = NoManager
    /\ rwm = NoLock
    /\ cli = NoClient

SearchEnter ==
    /\ srch.phase = "call"
    /\ srch' = [srch EXCEPT !.s = searchEnter(srch.U, srch.uid),
                            !.phase = IF searchEnter(srch.U, srch.uid).done
                                      THEN "done" ELSE "loop"]

SearchIterate ==
    /\ srch.phase = "loop"
    /\ srch' = [srch EXCEPT !.s = searchIterate(srch.U, srch.uid, srch.s),
                            !.iters = @ + 1,
                            !.phase = IF searchIterate(srch.U, srch.uid, srch.s).done
                                      THEN "done" ELSE "loop"]

NextSearch ==
    /\ SearchEnter \/ SearchIterate
    /\ UNCHANGED <<boxVars, last, mutex, pc, loc, sub, mgr, rwm, cli>>

SpecSearch == InitSearch /\ [][NextSearch]_vars

\* ------------------------------------------------------------------------
\* SpecSearchFloat: GetSequenceNumber with the probe computed in floats, on
\* indexes whose identifiers need more significant bits than a float has.
\* SpecSearchFloatLive adds that the running call keeps taking steps.
\* ------------------------------------------------------------------------
\* The identifiers: the first two, and those around the first integer that
\* a float cannot hold.
FloatUIDs == {1, 2} \cup ((2^FloatBits - 1)..FloatMaxUID)
FloatSeqs == {Ascending(S) : S \in {T \in SUBSET FloatUIDs : Cardinality(T) <= 3}}
FloatTargets == 0..(FloatMaxUID + 1)

InitSearchFloat ==
    /\ InitBox
    /\ last = NoCall
    /\ mutex = FreeMutex
    /\ pc = Idle
    /\ loc = NoLocals
    /\ srch = NoSearch
    /\ sub = NoSub
    /\ mgr = NoManager
    /\ rwm = NoLock
    /\ cli = NoClient

\* GetSequenceNumber is called on an index with a target.
SearchCallFloat ==
    /\ srch.phase = "off"
    /\ srch' \in {[U |-> U, uid |-> t, phase |-> "call", iters |-> 0, s |-> Returned(0)] :
                     U \in FloatSeqs, t \in FloatTargets}

\* One iteration; iters counts them up to the length of the index.
SearchIterateFloat ==
    /\ srch.phase = "loop"
    /\ srch' = [srch EXCEPT !.s = searchIterateFloat(srch.U, srch.uid, srch.s),
                            !.iters = IF @ < Len(srch.U) THEN @ + 1 ELSE @,
                            !.phase = IF searchIterateFloat(srch.U, srch.uid, srch.s).done
                                      THEN "done" ELSE "loop"]

NextSearchFloat ==
    /\ SearchCallFloat \/ SearchEnter \/ SearchIterateFloat
    /\ UNCHANGED <<boxVars, last, mutex, pc, loc, sub, mgr, rwm, cli>>

SpecSearchFloat == InitSearchFloat /\ [][NextSearchFloat]_vars

SpecSearchFloatLive == SpecSearchFloat /\ WF_vars(NextSearchFloat)

\* ------------------------------------------------------------------------
\* SpecKeys: the key Manager (keymgr/manager.go) called by two goroutines.
\* mgr is the record
\*   [mutex, IDs, pc, acc, raced, crashed]:
\* mutex is mgr.mutex, IDs is mgr.db.IDs (address -> name), pc[g] is where
\* goroutine g is in its call, acc[g] says whether g is reading or writing
\* the database at this moment, raced[g] whether another goroutine has been
\* writing it, or reading it while g writes, since g began, and crashed
\* whether the process has ended in a panic or a fatal error.  A call takes
\* its lock, begins its access, finishes it and releases the lock, one step
\* each.  An access that raced has the outcomes a data race on a Go map
\* has: it took effect, it was lost, or the runtime ended the process.
\* ------------------------------------------------------------------------
KeyAddrs == {"BM-a", "BM-b"}
KeyOps == {"ImportIdentity", "NewHDIdentity", "NameAddress", "UnnameAddress",
           "Addresses", "Names"}
KeyIdle == [op |-> "none", step |-> "idle", addr |-> "", n |-> 0]

\* New (79-93).
NewManager ==
    [mutex   |-> FreeMutex,
     IDs     |-> << >>,
     pc      |-> [g \in Callers |-> KeyIdle],
     acc     |-> [g \in Callers |-> "none"],
     raced   |-> [g \in Callers |-> FALSE],
     crashed |-> FALSE]

InitKeys ==
    /\ InitBox
    /\ last = NoCall
    /\ mutex = FreeMutex
    /\ pc = Idle
    /\ loc = NoLocals
    /\ srch = NoSearch
    /\ sub = NoSub
    /\ mgr = NewManager
    /\ rwm = NoLock
    /\ cli = NoClient

\* The calls that take mgr.mutex.Lock(): ImportIdentity (204) and
\* NewHDIdentity (248).  All the others take RLock().
KeyExclusive(op) == op \in {"ImportIdentity", "NewHDIdentity"}

\* Whether the call writes the database: ImportIdentity inserts an address
\* that is not there (208-214), NewHDIdentity always inserts (281),
\* NameAddress and UnnameAddress assign the name and the map entry of an
\* address that is there (369-373, 385-389).
KeyWrites(op, addr, IDs) ==
    \/ op = "ImportIdentity" /\ addr \notin DOMAIN IDs
    \/ op = "NewHDIdentity"
    \/ op \in {"NameAddress", "UnnameAddress"} /\ addr \in DOMAIN IDs

\* The database after the write of the call.
KeyEffect(op, addr, IDs) ==
    IF ~KeyWrites(op, addr, IDs) THEN IDs
    ELSE IF op = "NameAddress" THEN [IDs EXCEPT ![addr] = "name"]
    ELSE IF op = "UnnameAddress" THEN [IDs EXCEPT ![addr] = ""]
    ELSE (addr :> "") @@ IDs

KeyConflict(m1, m2) == m1 # "none" /\ m2 # "none" /\ (m1 = "write" \/ m2 = "write")

\* Goroutine g begins an access of the given mode.
KeyBegins(g, mode) ==
    [mgr EXCEPT
        !.acc   = [@ EXCEPT ![g] = mode],
        !.raced = [h \in Callers |->
                      IF h = g THEN \E q \in Callers \ {g} : KeyConflict(mgr.acc[q], mode)
                      ELSE mgr.raced[h] \/ KeyConflict(mgr.acc[h], mode)]]

KeyStep(g, m) ==
    /\ ~mgr.crashed
    /\ mgr' = m
    /\ UNCHANGED <<boxVars, last, mutex, pc, loc, srch, sub, rwm, cli>>

\* A goroutine calls a method.  Addresses sizes its result from the map
\* before it takes the lock (350): the read begins here.
KeyCall ==
    \E g \in Callers, op \in KeyOps, addr \in KeyAddrs :
        /\ mgr.pc[g].step = "idle"
        /\ op \in {"Addresses", "Names"} => addr = "BM-a"
        /\ LET called(step) == [op |-> op, step |-> step, addr |-> addr, n |-> 0]
           IN  IF op = "Addresses"
               THEN KeyStep(g, [KeyBegins(g, "read") EXCEPT !.pc[g] = called("sizing")])
               ELSE KeyStep(g, [mgr EXCEPT !.pc[g] = called("call")])

\* Addresses has made its slice (350); a read that raced with a write may
\* have seen any size.
KeySized ==
    \E g \in Callers, n \in 0..Cardinality(KeyAddrs) :
        /\ mgr.pc[g].step = "sizing"
        /\ n = Cardinality(DOMAIN mgr.IDs) \/ mgr.raced[g]
        /\ KeyStep(g, [mgr EXCEPT !.pc[g].step = "call", !.pc[g].n = n,
                                  !.acc[g] = "none", !.raced[g] = FALSE])

\* mgr.mutex.Lock() or mgr.mutex.RLock().
KeyAcquire ==
    \E g \in Callers :
        /\ mgr.pc[g].step = "call"
        /\ IF KeyExclusive(mgr.pc[g].op)
           THEN /\ CanLock(mgr.mutex)
                /\ KeyStep(g, [mgr EXCEPT !.mutex = Locked(g), !.pc[g].step = "locked"])
           ELSE /\ CanRLock(mgr.mutex)
                /\ KeyStep(g, [mgr EXCEPT !.mutex.readers = @ \cup {g},
                                          !.pc[g].step = "locked"])

\* The call begins to read or to write the database.
KeyAccess ==
    \E g \in Callers :
        /\ mgr.pc[g].step = "locked"
        /\ LET mode == IF KeyWrites(mgr.pc[g].op, mgr.pc[g].addr, mgr.IDs)
                       THEN "write" ELSE "read"
           IN  KeyStep(g, [KeyBegins(g, mode) EXCEPT !.pc[g].step = "access"])

\* The call has read or written.  Addresses panics when the map holds more
\* addresses than the slice it made (356): index out of range.
KeyFinish ==
    \E g \in Callers, outcome \in {"done", "lost", "crash"} :
        /\ mgr.pc[g].step = "access"
        /\ outcome # "done" => mgr.raced[g]
        /\ outcome = "lost" => mgr.acc[g] = "write"
        /\ LET c        == mgr.pc[g]
               overflow == c.op = "Addresses" /\ Cardinality(DOMAIN mgr.IDs) > c.n
               finished == [mgr EXCEPT !.pc[g].step = "done", !.acc[g] = "none",
                                       !.raced[g] = FALSE]
           IN  IF overflow \/ outcome = "crash"
               THEN KeyStep(g, [finished EXCEPT !.crashed = TRUE])
               ELSE IF outcome = "lost" THEN KeyStep(g, finished)
               ELSE KeyStep(g, [finished EXCEPT !.IDs = KeyEffect(c.op, c.addr, mgr.IDs)])

\* The deferred Unlock() or RUnlock().
KeyRelease ==
    \E g \in Callers :
        /\ mgr.pc[g].step = "done"
        /\ KeyStep(g, [mgr EXCEPT
                          !.mutex = IF KeyExclusive(mgr.pc[g].op) THEN FreeMutex
                                    ELSE [@ EXCEPT !.readers = @ \ {g}],
                          !.pc[g] = KeyIdle])

NextKeys ==
    \/ KeyCall
    \/ KeySized
    \/ KeyAcquire
    \/ KeyAccess
    \/ KeyFinish
    \/ KeyRelease

SpecKeys == InitKeys /\ [][NextKeys]_vars

\* ------------------------------------------------------------------------
\* SpecIDs: the identity database of the key Manager and its two lists, one
\* caller, one call per step.  mgr is the record
\*   [IDs, importedIDs, derivedIDs, NewIDIndex]:
\* IDs is mgr.db.IDs as a function from the addresses to the Imported flag
\* of the identity, NewIDIndex is mgr.db.NewIDIndex.  An address is
\* <<"hd", i>> for the identity the master key derives at index i
\* (identity.NewHD is a function of the key, the index and the stream) and
\* <<"ext", k>> for an identity made elsewhere.
\* ------------------------------------------------------------------------
HDAddress(i) == <<"hd", i>>
IDAddresses == {HDAddress(i) : i \in 0..(MaxHDIndex - 1)} \cup {<<"ext", 0>>}

\* New (78-94): an empty database and two empty lists.
New == [IDs |-> << >>, importedIDs |-> <<>>, derivedIDs |-> <<>>, NewIDIndex |-> 0]

\* ImportIdentity (199-218): an address the database holds is left alone;
\* a new one is stored as imported and appended to importedIDs.
ImportIdentity(m, addr) ==
    IF addr \in DOMAIN m.IDs THEN m
    ELSE [m EXCEPT !.IDs = (addr :> TRUE) @@ m.IDs,
                   !.importedIDs = Append(@, addr)]

\* NewHDIdentity (247-284): the identity is derived at the first index from
\* NewIDIndex at which the derivation succeeds (skip indexes fail), its
\* address is appended to derivedIDs (278) and its entry written into the
\* database (281), whatever the database holds under that address.
NewHDIdentity(m, skip) ==
    LET str == HDAddress(m.NewIDIndex + skip)
    IN  [m EXCEPT !.NewIDIndex = @ + skip + 1,
                  !.derivedIDs = Append(@, str),
                  !.IDs = (str :> FALSE) @@ m.IDs]

\* ImportKeys (411-483): ImportIdentity for each identity of the data, in
\* the order the data is ranged over.
RECURSIVE ImportKeys(_, _)
ImportKeys(m, addrs) ==
    IF addrs = <<>> THEN m
    ELSE ImportKeys(ImportIdentity(m, Head(addrs)), Tail(addrs))

\* The orders in which a range statement visits the keys S of a map.
Orders(S) == {q \in [1..Cardinality(S) -> S] : \A a \in S : \E i \in DOMAIN q : q[i] = a}

\* FromPlaintext (130-156) on the database db: the lists are filled from
\* the Imported flags, in the order the map is ranged over.
FromPlaintext(db, order) ==
    [IDs         |-> db.IDs,
     importedIDs |-> SelectSeq(order, LAMBDA a : db.IDs[a]),
     derivedIDs  |-> SelectSeq(order, LAMBDA a : ~db.IDs[a]),
     NewIDIndex  |-> db.NewIDIndex]

NumImported(m) == Len(m.importedIDs)
NumDeterministic(m) == Len(m.derivedIDs)
Size(m) == Cardinality(DOMAIN m.IDs)

InitIDs ==
    /\ InitBox
    /\ last = NoCall
    /\ mutex = FreeMutex
    /\ pc = Idle
    /\ loc = NoLocals
    /\ srch = NoSearch
    /\ sub = NoSub
    /\ mgr = New
    /\ rwm = NoLock
    /\ cli = NoClient

IDsStep(m) ==
    /\ mgr' = m
    /\ UNCHANGED <<boxVars, last, mutex, pc, loc, srch, sub, rwm, cli>>

CallImportIdentity ==
    \E addr \in IDAddresses :
        IDsStep(ImportIdentity(mgr, addr))

CallNewHDIdentity ==
    \E skip \in 0..(MaxHDIndex - 1) :
        /\ mgr.NewIDIndex + skip < MaxHDIndex
        /\ IDsStep(NewHDIdentity(mgr, skip))

CallImportKeys ==
    \E S \in SUBSET IDAddresses :
        \E addrs \in Orders(S) :
            IDsStep(ImportKeys(mgr, addrs))

\* The database is exported and a Manager is made from the export.
CallFromPlaintext ==
    \E order \in Orders(DOMAIN mgr.IDs) :
        IDsStep(FromPlaintext(mgr, order))

NextIDs ==
    \/ CallImportIdentity
    \/ CallNewHDIdentity
    \/ CallImportKeys
    \/ CallFromPlaintext

SpecIDs == InitIDs /\ [][NextIDs]_vars

\* ------------------------------------------------------------------------
\* SpecLock: the mailbox's RWMutex as its callers take it.  rwm is the
\* record [pending, writer, holds, pc]: pending is the caller whose Lock()
\* has been announced and not yet released (0 when there is none), writer
\* the caller that holds the lock exclusively, holds[g] the number of read
\* locks caller g holds, and pc[g] where g is in its call.  sync.RWMutex
\* prefers writers: once a Lock() is announced, every new RLock() waits
\* until that writer has unlocked, and the writer waits until the read locks
\* taken before have been released.
\* ------------------------------------------------------------------------
LockOps == {"Messages", "MessageSetBySequenceNumber", "DeleteBitmessageByUID"}
SetShapes == {"*", "n", "n:*"}
LockIdle == [op |-> "none", step |-> "idle", left |-> 0]

NewLock ==
    [pending |-> 0,
     writer  |-> 0,
     holds   |-> [g \in Callers |-> 0],
     pc      |-> [g \in Callers |-> LockIdle]]

InitLock ==
    /\ InitBox
    /\ last = NoCall
    /\ mutex = FreeMutex
    /\ pc = Idle
    /\ loc = NoLocals
    /\ srch = NoSearch
    /\ sub = NoSub
    /\ mgr = NoManager
    /\ rwm = NewLock
    /\ cli = NoClient

\* The calls of box.Messages() that bitmessageSetBySequenceNumber makes on
\* a mailbox that is not empty, for a set of one range: the test for the
\* empty mailbox (474); for a range that starts at a number, the test of
\* the start (491); and for the range n:*, the test in
\* bitmessagesSinceSequenceNumber (410).
MessagesCalls(op, shape) ==
    IF op # "MessageSetBySequenceNumber" THEN 0
    ELSE IF shape = "*" THEN 1
    ELSE IF shape = "n" THEN 2
    ELSE 3

LockStep(m) ==
    /\ rwm' = m
    /\ UNCHANGED <<boxVars, last, mutex, pc, loc, srch, sub, mgr, cli>>

\* RLock() returns when no Lock() is announced or held.
RLockReturns == rwm.pending = 0 /\ rwm.writer = 0

\* A caller calls a public method of the mailbox.
LockCall(g) ==
    \E op \in LockOps, shape \in SetShapes :
        /\ rwm.pc[g].step = "idle"
        /\ op # "MessageSetBySequenceNumber" => shape = "*"
        /\ LockStep([rwm EXCEPT !.pc[g] =
               [op   |-> op,
                step |-> IF op = "DeleteBitmessageByUID" THEN "Lock" ELSE "RLock",
                left |-> MessagesCalls(op, shape)]])

\* box.RLock() of Messages (236) and of MessageSetBySequenceNumber (569).
LockRLock(g) ==
    /\ rwm.pc[g].step = "RLock"
    /\ RLockReturns
    /\ LockStep([rwm EXCEPT !.holds[g] = @ + 1,
                            !.pc[g].step = IF rwm.pc[g].left > 0 THEN "Messages"
                                           ELSE "RUnlock"])

\* box.Messages() called by the helper: its box.RLock() (236).
MessagesRLock(g) ==
    /\ rwm.pc[g].step = "Messages"
    /\ RLockReturns
    /\ LockStep([rwm EXCEPT !.holds[g] = @ + 1, !.pc[g].step = "MessagesReturn"])

\* box.Messages() called by the helper: its deferred box.RUnlock() (237).
MessagesRUnlock(g) ==
    /\ rwm.pc[g].step = "MessagesReturn"
    /\ LockStep([rwm EXCEPT !.holds[g] = @ - 1,
                            !.pc[g].left = @ - 1,
                            !.pc[g].step = IF rwm.pc[g].left > 1 THEN "Messages"
                                           ELSE "RUnlock"])

\* The deferred box.RUnlock() of the public method (237, 570).
LockRUnlock(g) ==
    /\ rwm.pc[g].step = "RUnlock"
    /\ LockStep([rwm EXCEPT !.holds[g] = @ - 1, !.pc[g] = LockIdle])

\* box.Lock() (588): the writer announces itself.
LockAnnounce(g) ==
    /\ rwm.pc[g].step = "Lock"
    /\ rwm.pending = 0
    /\ LockStep([rwm EXCEPT !.pending = g, !.pc[g].step = "LockWait"])

\* box.Lock() returns when the read locks have been released.
LockGranted(g) ==
    /\ rwm.pc[g].step = "LockWait"
    /\ \A h \in Callers : rwm.holds[h] = 0
    /\ LockStep([rwm EXCEPT !.writer = g, !.pc[g].step = "Unlock"])

\* The deferred box.Unlock() (589).
LockUnlock(g) ==
    /\ rwm.pc[g].step = "Unlock"
    /\ LockStep([rwm EXCEPT !.writer = 0, !.pending = 0, !.pc[g] = LockIdle])

\* A caller that is in a call goes on when it can.
LockProgress(g) ==
    \/ LockRLock(g)
    \/ MessagesRLock(g)
    \/ MessagesRUnlock(g)
    \/ LockRUnlock(g)
    \/ LockAnnounce(g)
    \/ LockGranted(g)
    \/ LockUnlock(g)

NextLock ==
    \/ \E g \in Callers : LockCall(g)
    \/ \E g \in Callers : LockRLock(g)
    \/ \E g \in Callers : MessagesRLock(g)
    \/ \E g \in Callers : MessagesRUnlock(g)
    \/ \E g \in Callers : LockRUnlock(g)
    \/ \E g \in Callers : LockAnnounce(g)
    \/ \E g \in Callers : LockGranted(g)
    \/ \E g \in Callers : LockUnlock(g)

SpecLock == InitLock /\ [][NextLock]_vars

\* Every goroutine is scheduled, and sync.RWMutex starves neither readers
\* nor writers: a caller whose next step is possible again and again takes
\* it.
SpecLockLive == SpecLock /\ \A g \in Callers : SF_vars(LockProgress(g))

\* ------------------------------------------------------------------------
\* SpecRPC: the RPC Client (rpc/client.go) with the three goroutines that
\* Start launches, the callers of Stop and a caller of WaitForShutdown.
\* cli is the record
\*   [started, args, quit, conn, quitMtx, wg, procs, stops, wait,
\*    connCloses, returned, panicked]:
\* quit and conn are "open" or "closed", quitMtx is the caller of Stop that
\* holds the mutex (0: none), wg the counter of the WaitGroup, procs[i] the
\* i-th goroutine started (its arguments and where it is), stops[s] where
\* caller s is in Stop, wait where the caller of WaitForShutdown is,
\* connCloses the number of calls of conn.Close(), returned whether a call
\* of Stop has returned, panicked whether the process has ended in a panic.
\* ------------------------------------------------------------------------
ObjectTypes == <<"MESSAGE", "BROADCAST", "GETPUBKEY">>
Handlers == <<"msgFunc", "broadcastFunc", "getpubkeyFunc">>
Stoppers == Callers

\* NewClient (63-99): the quit channel is made, nothing is started.
NewClient ==
    [started    |-> FALSE,
     args       |-> <<>>,
     quit       |-> "open",
     conn       |-> "open",
     quitMtx    |-> 0,
     wg         |-> 0,
     procs      |-> <<>>,
     stops      |-> [s \in Stoppers |-> "idle"],
     wait       |-> "idle",
     connCloses |-> 0,
     returned   |-> FALSE,
     panicked   |-> FALSE]

\* go c.processObjects(objType, fromCounter, f): the goroutine has not yet
\* opened its stream.
processor(objType, fromCounter, f) ==
    [objType |-> objType, fromCounter |-> fromCounter, f |-> f, at |-> "GetObjects"]

\* The counter that Start hands to the getpubkey processor (166).
getpubkeyFrom(msgCounter, broadcastCounter, getpubkeyCounter) == broadcastCounter

\* Start (151-167): started is set and the three processors are launched,
\* each counted in the WaitGroup.
Start(c, msgCounter, broadcastCounter, getpubkeyCounter) ==
    [c EXCEPT
        !.started = TRUE,
        !.args    = <<msgCounter, broadcastCounter, getpubkeyCounter>>,
        !.wg      = @ + 3,
        !.procs   = <<processor(ObjectTypes[1], msgCounter, Handlers[1]),
                      processor(ObjectTypes[2], broadcastCounter, Handlers[2]),
                      processor(ObjectTypes[3],
                                getpubkeyFrom(msgCounter, broadcastCounter, getpubkeyCounter),
                                Handlers[3])>>]

\* Stop's select always takes the default branch.
stopSkipsNever(c) == FALSE

\* Stop (208-209): the first case of the select is taken when quit is
\* closed, and then Stop does nothing.
stopSkips(c) == c.quit = "closed"

\* close(c.quit) (211); closing a closed channel panics.
closeQuit(c) ==
    IF c.quit = "closed" THEN [c EXCEPT !.panicked = TRUE]
    ELSE [c EXCEPT !.quit = "closed"]

\* Stop leaves the connection open.
connCloseSkipped(c) == c

\* c.conn.Close() (212).
connClose(c) == [c EXCEPT !.conn = "closed", !.connCloses = @ + 1]

\* processObjects returns: the deferred c.wg.Done() (173).
procExit(c, i) == [c EXCEPT !.procs[i].at = "exited", !.wg = @ - 1]

RPCStep(c) ==
    /\ ~cli.panicked
    /\ cli' = c
    /\ UNCHANGED <<boxVars, last, mutex, pc, loc, srch, sub, mgr, rwm>>

InitRPC ==
    /\ InitBox
    /\ last = NoCall
    /\ mutex = FreeMutex
    /\ pc = Idle
    /\ loc = NoLocals
    /\ srch = NoSearch
    /\ sub = NoSub
    /\ mgr = NoManager
    /\ rwm = NoLock
    /\ cli = NewClient

CallStart ==
    \E msgCounter, broadcastCounter, getpubkeyCounter \in 0..MaxCounter :
        /\ ~cli.started
        /\ cli.quitMtx = 0
        /\ RPCStep(Start(cli, msgCounter, broadcastCounter, getpubkeyCounter))

\* c.bmd.GetObjects (175-182): on a closed connection the call fails, and
\* on an open one it may; the processor returns then.
ProcGetObjects(i) ==
    /\ i \in DOMAIN cli.procs
    /\ cli.procs[i].at = "GetObjects"
    /\ \E ok \in BOOLEAN :
          /\ ok => cli.conn = "open"
          /\ RPCStep(IF ok THEN [cli EXCEPT !.procs[i].at = "select"]
                     ELSE procExit(cli, i))

\* The select of the loop (187-191): return when quit is closed, else the
\* default branch, which calls stream.Recv().
ProcSelect(i) ==
    /\ i \in DOMAIN cli.procs
    /\ cli.procs[i].at = "select"
    /\ RPCStep(IF cli.quit = "closed" THEN procExit(cli, i)
               ELSE [cli EXCEPT !.procs[i].at = "Recv"])

\* stream.Recv() returns an object (191): the handler is called.
ProcRecvObject(i) ==
    /\ i \in DOMAIN cli.procs
    /\ cli.procs[i].at = "Recv"
    /\ cli.conn = "open"
    /\ RPCStep([cli EXCEPT !.procs[i].at = "handler"])

\* stream.Recv() returns an error (192-196) because the stream broke while
\* the connection is open.
ProcRecvBreaks(i) ==
    /\ i \in DOMAIN cli.procs
    /\ cli.procs[i].at = "Recv"
    /\ cli.conn = "open"
    /\ RPCStep(procExit(cli, i))

\* stream.Recv() returns an error (192-196) because the connection is
\* closed.
ProcRecvFails(i) ==
    /\ i \in DOMAIN cli.procs
    /\ cli.procs[i].at = "Recv"
    /\ cli.conn = "closed"
    /\ RPCStep(procExit(cli, i))

\* The handler returns (197) and the loop goes round.
ProcHandled(i) ==
    /\ i \in DOMAIN cli.procs
    /\ cli.procs[i].at = "handler"
    /\ RPCStep([cli EXCEPT !.procs[i].at = "select"])

\* A caller calls Stop.
CallStop(s) ==
    /\ cli.stops[s] = "idle"
    /\ RPCStep([cli EXCEPT !.stops[s] = "Lock"])

\* c.quitMtx.Lock() (205).
StopLock(s) ==
    /\ cli.stops[s] = "Lock"
    /\ cli.quitMtx = 0
    /\ RPCStep([cli EXCEPT !.quitMtx = s, !.stops[s] = "select"])

\* The select of Stop (208-211) up to close(c.quit).
StopSelect(s) ==
    /\ cli.stops[s] = "select"
    /\ RPCStep(IF stopSkips(cli) THEN [cli EXCEPT !.stops[s] = "Unlock"]
               ELSE [closeQuit(cli) EXCEPT !.stops[s] = "Close"])

\* c.conn.Close() (212).
StopClose(s) ==
    /\ cli.stops[s] = "Close"
    /\ RPCStep([connClose(cli) EXCEPT !.stops[s] = "Unlock"])

\* The deferred c.quitMtx.Unlock() (206); Stop returns.
StopUnlock(s) ==
    /\ cli.stops[s] = "Unlock"
    /\ RPCStep([cli EXCEPT !.quitMtx = 0, !.stops[s] = "idle", !.returned = TRUE])

\* WaitForShutdown (218-220) is called once Start has returned.
CallWaitForShutdown ==
    /\ cli.started
    /\ cli.wait = "idle"
    /\ RPCStep([cli EXCEPT !.wait = "Wait"])

\* c.wg.Wait() returns when the counter is 0.
WaitReturns ==
    /\ cli.wait = "Wait"
    /\ cli.wg = 0
    /\ RPCStep([cli EXCEPT !.wait = "returned"])

NextRPC ==
    \/ CallStart
    \/ \E i \in DOMAIN ObjectTypes : ProcGetObjects(i)
    \/ \E i \in DOMAIN ObjectTypes : ProcSelect(i)
    \/ \E i \in DOMAIN ObjectTypes : ProcRecvObject(i)
    \/ \E i \in DOMAIN ObjectTypes : ProcRecvBreaks(i)
    \/ \E i \in DOMAIN ObjectTypes : ProcRecvFails(i)
    \/ \E i \in DOMAIN ObjectTypes : ProcHandled(i)
    \/ \E s \in Stoppers : CallStop(s)
    \/ \E s \in Stoppers : StopLock(s)
    \/ \E s \in Stoppers : StopSelect(s)
    \/ \E s \in Stoppers : StopClose(s)
    \/ \E s \in Stoppers : StopUnlock(s)
    \/ CallWaitForShutdown
    \/ WaitReturns

SpecRPC == InitRPC /\ [][NextRPC]_vars

\* What a goroutine that is scheduled does without waiting for the network:
\* every step of a processor but the arrival of an object and the breaking
\* of a stream on an open connection.
ProcProgress(i) ==
    \/ ProcGetObjects(i)
    \/ ProcSelect(i)
    \/ ProcRecvFails(i)
    \/ ProcHandled(i)

StopProgress(s) ==
    \/ StopLock(s)
    \/ StopSelect(s)
    \/ StopClose(s)
    \/ StopUnlock(s)

\* Every goroutine is scheduled, handlers return, and sync.Mutex does not
\* starve a caller of Lock().
SpecRPCLive ==
    /\ SpecRPC
    /\ \A i \in DOMAIN ObjectTypes : WF_vars(ProcProgress(i))
    /\ \A s \in Stoppers : SF_vars(StopProgress(s))
    /\ WF_vars(WaitReturns)

\* ------------------------------------------------------------------------
\* Claims
\* ------------------------------------------------------------------------
\* The positions p with U[p-1] < t <= U[p].
Positions(U, t) == {p \in 2..Len(U) : U[p - 1] < t /\ t <= U[p]}

\* C1: for a strictly ascending index U and a target t, GetSequenceNumber
\* returns 1 if U is empty or t <= U[1], Len(U) + 1 if t is above the last
\* element, and otherwise the one position p with U[p-1] < t <= U[p]; on
\* <<5, 10, 15>> it maps 10 to 2, 7 to 2, 20 to 4 and 1 to 1.
C1_SequenceNumber ==
    srch.phase = "done" =>
        /\ (Len(srch.U) = 0 \/ srch.uid <= srch.U[1]) => srch.s.result = 1
        /\ (Len(srch.U) > 0 /\ srch.uid > srch.U[Len(srch.U)])
              => srch.s.result = Len(srch.U) + 1
        /\ (Len(srch.U) > 0 /\ srch.uid > srch.U[1] /\ srch.uid <= srch.U[Len(srch.U)])
              => Positions(srch.U, srch.uid) = {srch.s.result}
        /\ srch.U = <<5, 10, 15>> =>
              /\ srch.uid = 10 => srch.s.result = 2
              /\ srch.uid = 7 => srch.s.result = 2
              /\ srch.uid = 20 => srch.s.result = 4
              /\ srch.uid = 1 => srch.s.result = 1

\* A search that went round the loop twice and ended between two elements.
C1_Witness ==
    /\ srch.phase = "done"
    /\ srch.iters >= 2
    /\ srch.s.result \in 2..Len(srch.U)
    /\ srch.U[srch.s.result] # srch.uid

\* The identifiers in the index, and the flags stored under an identifier.
Indexed == {uids[i] : i \in 1..Len(uids)}
StoredFlags(st, u) == DecodeBitmessage(st[u]).Flags

\* C3: after every completed public operation, failed or not, Recent() is
\* the number of indexed messages whose stored flags include Recent and
\* Unseen() the number of indexed messages whose stored flags lack Seen.
C3_CountsMatchFlags ==
    /\ numRecent = Cardinality({u \in Indexed \cap DOMAIN store :
                                    FlagRecent \in StoredFlags(store, u)})
    /\ numUnseen = Cardinality({u \in Indexed \cap DOMAIN store :
                                    FlagSeen \notin StoredFlags(store, u)})

\* What Save and DeleteBitmessageByUID return to their caller.
SaveErr(email, f) ==
    LET previous == bmsgByUID(store, uids, email.ImapUID)
    IN  \/ saveInvalid(email, previous)
        \/ saveBitmessage(Box, emailBitmessage(email, previous), f.ins, f.del, f.scan).err

DeleteErr(id, delFails) == deleteBitmessageByUID(Box, id, delFails).err

\* The index holds exactly the identifiers of the stored messages (every
\* stored message decodes and no membership predicate is set), once each.
IndexIsStore(U, st) ==
    /\ {U[i] : i \in 1..Len(U)} = DOMAIN st
    /\ messages(U) = Cardinality(DOMAIN st)

\* C4: after every successful AddNew, Save or DeleteBitmessageByUID the
\* index is exactly the set of identifiers of the stored messages and
\* Messages() is the size of that set.
C4_IndexIsStoreAfterSuccess ==
    [][(\/ \E c \in Contents, f \in Faults : AddNew(c, f)
        \/ \E email \in Emails, f \in Faults : Save(email, f) /\ ~SaveErr(email, f)
        \/ \E id \in UIDArgs, delFails \in BOOLEAN :
              DeleteBitmessageByUID(id, delFails) /\ ~DeleteErr(id, delFails))
       => IndexIsStore(uids', store')]_vars

\* The identifier under which ReceiveAck's scan finds the ack (0: nowhere).
ackScanID(st, ack) ==
    LET hits == SelectSeq(ForEachMessage(st, 0, 0),
                          LAMBDA i : DecodeBitmessage(st[i]).Ack = ack)
    IN  IF hits = <<>> THEN 0 ELSE Head(hits)

\* C8: when a stored message carries the ack, ReceiveAck (with the store
\* working) leaves the entry under the matched identifier with
\* ack-received true, every other entry as it was, and the set of stored
\* identifiers unchanged.
C8_AckPersistedInPlace ==
    [][\A ack \in Acks :
          (ReceiveAck(ack, NoFault) /\ ackScanID(store, ack) # 0)
          => /\ DOMAIN store' = DOMAIN store
             /\ store'[ackScanID(store, ack)].state.ack_received
             /\ \A i \in DOMAIN store \ {ackScanID(store, ack)} : store'[i] = store[i]]_vars

\* The identifiers of the messages in a result, nil entries left out.
ResultUIDs(res) == [i \in 1..Len(SelectSeq(res, LAMBDA m : ~m.isNil)) |->
                        SelectSeq(res, LAMBDA m : ~m.isNil)[i].UID]

IsNumber(sn) == ~Value(sn).err

\* C5: MessageSetBySequenceNumber is positional: n gives the message with
\* identifier uids[n], a:b the messages with identifiers uids[a..b] in
\* order, a:* those with identifiers uids[a..count], whatever identifiers
\* the index holds.
C5_SequenceSetIsPositional ==
    (last.op = "SetBySequenceNumber" /\ Len(last.arg) = 1 /\ IsNumber(last.arg[1].Min)) =>
        LET a == Value(last.arg[1].Min).value
            b == Value(last.arg[1].Max).value
            n == Len(uids)
        IN  /\ (IsNil(last.arg[1].Max) /\ 1 <= a /\ a <= n)
                  => ResultUIDs(last.res) = <<uids[a]>>
            /\ (IsNumber(last.arg[1].Max) /\ 1 <= a /\ a <= b /\ b <= n)
                  => ResultUIDs(last.res) = SubSeq(uids, a, b)
            /\ (IsLast(last.arg[1].Max) /\ 1 <= a /\ a <= n)
                  => ResultUIDs(last.res) = SubSeq(uids, a, n)

\* What one range of identifiers contributes according to C6: the indexed
\* identifiers a..b, those from a on, or a itself.
RangeUIDs(U, r) ==
    LET a == Value(r.Min).value
        b == Value(r.Max).value
    IN  IF IsNil(r.Max) THEN SelectSeq(U, LAMBDA u : u = a)
        ELSE IF IsLast(r.Max) THEN SelectSeq(U, LAMBDA u : u >= a)
        ELSE SelectSeq(U, LAMBDA u : a <= u /\ u <= b)

RECURSIVE SetUIDs(_, _)
SetUIDs(U, set) ==
    IF set = <<>> THEN <<>> ELSE RangeUIDs(U, Head(set)) \o SetUIDs(U, Tail(set))

\* The ranges C6 speaks of: a, a:b and a:* with numbers for a and b.
PlainRange(r) == IsNumber(r.Min) /\ (IsNil(r.Max) \/ IsLast(r.Max) \/ IsNumber(r.Max))

\* C6: MessageSetByUID returns, for each range in input order, the indexed
\* messages with a <= uid <= b (a:b), with uid >= a (a:*), or with uid a
\* (a), in ascending order, the contributions concatenated as they come.
C6_UIDSetFromIndex ==
    (/\ last.op = "SetByUID"
     /\ Len(uids) > 0
     /\ \A i \in 1..Len(last.arg) : PlainRange(last.arg[i]))
    => ResultUIDs(last.res) = SetUIDs(uids, last.arg)

\* C7: every message a lookup returns carries the sequence number
\* 1 + the position of its identifier in uids.
C7_SequenceNumberIsPosition ==
    last.op \in {"ByUID", "BySequenceNumber", "SetByUID", "SetBySequenceNumber"} =>
        \A i \in 1..Len(last.res) :
            ~last.res[i].isNil =>
                /\ last.res[i].SequenceNumber \in 1..Len(uids)
                /\ uids[last.res[i].SequenceNumber] = last.res[i].UID

\* C2: in every reachable state, whatever the interleaving of AddNew, Save,
\* DeleteBitmessageByUID, DeleteFlaggedMessages and ReceiveAck, the index
\* uids is strictly ascending (hence without duplicates).
C2_IndexStrictlyAscending ==
    \A i \in 1..(Len(uids) - 1) : uids[i] < uids[i + 1]

\* Two identifiers are indexed, one caller has rebuilt the index from a
\* scan of both and another is between the two halves of its operation.
C2_Witness ==
    /\ Len(uids) = 2
    /\ \E p \in Callers : pc[p] \in {"save_lock", "ack_lock", "del_next"}

\* The steps at which a caller holds the write lock with the cache half
\* updated.
MidMutation == {"refresh", "install", "remove", "del_remove"}

\* C9: a reader never sees a mutation half done: while a caller is inside
\* a reading operation no caller is in the middle of a mutation, and the
\* index and both counters stay as they are for as long as it reads.
C9_ReadersSeeWholeMutations ==
    [][\A p \in Callers :
          pc'[p] = "reading" =>
              /\ \A q \in Callers : pc'[q] \notin MidMutation
              /\ pc[p] = "reading" => UNCHANGED <<uids, numRecent, numUnseen>>]_vars

\* A caller is reading a non-empty index while the other one has checked
\* its replace Save and waits for the write lock.
C9_Witness ==
    /\ uids # <<>>
    /\ \E p, q \in Callers :
          /\ pc[p] = "reading"
          /\ pc[q] = "save_lock"
          /\ loc[q].msg.UID # 0

\* C10: a replace Save writes only where a message is: when its store
\* write leaves a message at the identifier, one was there just before
\* the write, so a message deleted after the check of Save does not come
\* back.
C10_SaveDoesNotResurrect ==
    [][\A p \in Callers :
          (/\ pc[p] = "save_lock"
           /\ pc'[p] # "save_lock"
           /\ loc[p].msg.UID # 0
           /\ loc[p].msg.UID \in DOMAIN store')
          => loc[p].msg.UID \in DOMAIN store]_vars

\* The message stored under identifier u.
Stored(st, u) == DecodeBitmessage(st[u])

\* C11: a replace Save whose identifier is not in the folder (not indexed
\* or not stored), or whose date differs from the stored message's,
\* returns an error and leaves the store, the index and both counters as
\* they were.
C11_InvalidReplaceRejected ==
    [][(last'.op = "Save" /\ last'.arg[1].ImapUID # 0) =>
          LET email == last'.arg[1]
          IN  (\/ email.ImapUID \notin Indexed
               \/ email.ImapUID \notin DOMAIN store
               \/ Stored(store, email.ImapUID).TimeReceived # email.Date)
              => last'.res.err /\ UNCHANGED boxVars]_vars

\* A replace of an indexed, stored message with another date was refused.
C11_Witness ==
    /\ last.op = "Save"
    /\ last.res.err
    /\ last.arg[1].ImapUID \in Indexed \cap DOMAIN store
    /\ Stored(store, last.arg[1].ImapUID).TimeReceived # last.arg[1].Date

\* C12: DeleteBitmessageByUID(id) with id in uids (the store's delete
\* working) cuts exactly id out of uids, the others keeping their order,
\* deletes the store entry, and takes one off the recent count iff the
\* message had Recent and one off the unseen count iff it lacked Seen.
C12_DeleteRemovesOne ==
    [][(last'.op = "Delete" /\ ~last'.res.err /\ last'.res.uid \in Indexed) =>
          LET id == last'.res.uid
          IN  /\ uids' = SelectSeq(uids, LAMBDA u : u # id)
              /\ Len(uids') = Len(uids) - 1
              /\ id \in DOMAIN store
              /\ DOMAIN store' = DOMAIN store \ {id}
              /\ \A u \in DOMAIN store' : store'[u] = store[u]
              /\ numRecent' = numRecent -
                    (IF FlagRecent \in Stored(store, id).Flags THEN 1 ELSE 0)
              /\ numUnseen' = numUnseen -
                    (IF FlagSeen \in Stored(store, id).Flags THEN 0 ELSE 1)]_vars

\* C13: DeleteBitmessageByUID(id) with id not in uids returns success and
\* leaves the store, the index and both counters as they were.
C13_DeleteAbsentIsNoOp ==
    [][(last'.op = "Delete" /\ last'.res.uid \notin Indexed) =>
          ~last'.res.err /\ UNCHANGED boxVars]_vars

\* A delete of an identifier that is not indexed returned, with messages
\* in the folder.
C13_Witness ==
    /\ last.op = "Delete"
    /\ ~last.res.err
    /\ last.res.uid \notin Indexed
    /\ Len(uids) >= 2

\* C14: DeleteFlaggedMessages returns only messages that the call itself
\* removed from the folder, whatever other deletes run at the same time.
C14_ReturnsWhatItDeleted ==
    [][\A p \in Callers :
          (pc[p] = "del_next" /\ loc[p].del = <<>> /\ pc'[p] = "idle")
          => \A i \in 1..Len(loc[p].msgs) : loc[p].msgs[i] \in loc[p].removed]_vars

\* The stored message under u is flagged for deletion.
FlaggedDeleted(st, u) == u \in DOMAIN st /\ FlagDeleted \in Stored(st, u).Flags

\* C15: when DeleteFlaggedMessages returns without error (one caller), no
\* indexed message carries the Deleted flag, and every message that did
\* not carry it is still stored, unchanged, and indexed in the order it
\* had.
C15_FlaggedGoneOthersKept ==
    [][(last'.op = "DeleteFlagged" /\ ~last'.res.err) =>
          /\ \A i \in 1..Len(uids') : ~FlaggedDeleted(store', uids'[i])
          /\ \A u \in DOMAIN store :
                ~FlaggedDeleted(store, u) => u \in DOMAIN store' /\ store'[u] = store[u]
          /\ uids' = SelectSeq(uids, LAMBDA u : ~FlaggedDeleted(store, u))]_vars

\* The first of three messages was flagged and deleted, the other two are
\* indexed.
C15_Witness ==
    /\ last.op = "DeleteFlagged"
    /\ ~last.res.err
    /\ last.res.msgs = <<1>>
    /\ uids = <<2, 3>>

\* The acknowledgment token and the flags handed to the recorded AddNew or
\* Save.
SavedAck(call) == call.arg[1].Ack
SavedFlags(call) == IF call.op = "Save" THEN call.arg[1].ImapFlags ELSE call.arg[1].Flags

\* C17: after a Save or an AddNew that returned without error,
\* BitmessageByUID on the identifier the message was given returns a
\* message with the acknowledgment token and the flags that were saved.
C17_SaveRoundTrip ==
    [][(last'.op \in {"Save", "AddNew"} /\ ~last'.res.err) =>
          LET m == bmsgByUID(store', uids', last'.res.uid)
          IN  /\ ~m.isNil
              /\ m.Ack = SavedAck(last')
              /\ m.Flags = SavedFlags(last')]_vars

\* C18: when the insert or the refresh fails during AddNew, AddNew returns
\* the failure; it returns success only when the message is stored.
C18_AddNewReportsFailure ==
    [][last'.op = "AddNew" =>
          /\ ~last'.res.saved => last'.res.err
          /\ ~last'.res.err => last'.res.uid \in DOMAIN store']_vars

\* The stored entries that decode and that the membership predicate of the
\* mailbox rejects.
Rejected(st) ==
    {u \in DOMAIN st : /\ ~DecodeFails(st[u])
                       /\ sub.set
                       /\ DecodeBitmessage(st[u]).Ack \notin sub.acks}

\* The stored entries that decode, that the predicate accepts and that
\* carry the flag.
AcceptedWith(st, flag) ==
    {u \in DOMAIN st \ Rejected(st) : ~DecodeFails(st[u]) /\ flag \in StoredFlags(st, u)}

\* C16: with a membership predicate set, a stored message the predicate
\* rejects is not in uids, is not counted as recent or unseen, is returned
\* by no lookup by identifier or sequence number and by no set resolution,
\* and is not the message ReceiveAck matches.
C16_RejectedNeverVisible ==
    /\ \A u \in Rejected(store) :
          /\ u \notin Indexed
          /\ bmsgByUID(store, uids, u).isNil
          /\ \A seqno \in 0..(SharedMaxUID + 1) :
                bitmessageBySequenceNumber(store, uids, seqno).UID # u
          /\ \A set \in SetExprs :
                /\ \A i \in DOMAIN bitmessageSetByUID(store, uids, set) :
                      bitmessageSetByUID(store, uids, set)[i].UID # u
                /\ \A i \in DOMAIN bitmessageSetBySequenceNumber(store, uids, set) :
                      bitmessageSetBySequenceNumber(store, uids, set)[i].UID # u
    /\ \A ack \in Acks :
          ackScan(store, ack).isNil \/ ~(sub.set /\ ackScan(store, ack).Ack \notin sub.acks)
    /\ sub.set => /\ numRecent <= Cardinality(AcceptedWith(store, FlagRecent))
                  /\ numUnseen <= Cardinality(DOMAIN store \ Rejected(store))

\* The stored entries that decode and that the predicate accepts, in the
\* order of their identifiers.
AcceptedIDs(st) ==
    SelectSeq(ForEachMessage(st, 0, 0),
              LAMBDA u : ~DecodeFails(st[u]) /\ u \notin Rejected(st))

Undecodable(st) == {u \in DOMAIN st : DecodeFails(st[u])}

\* The call recorded by this step wrote the store and then ran refresh.
RefreshRan ==
    /\ last = NoCall
    /\ \/ last'.op = "AddNew" /\ last'.res.saved
       \/ /\ last'.op = "Save"
          /\ ~saveInvalid(last'.arg[1], bmsgByUID(store, uids, last'.arg[1].ImapUID))

\* C19: when the store holds an entry that does not decode, the refresh of
\* a saving call still succeeds, and afterwards uids lists every stored
\* entry that decodes and that the predicate accepts, and the counters
\* count the recent and the unseen ones among them.
C19_RefreshSkipsUndecodable ==
    [][(RefreshRan /\ Undecodable(store') # {})
       => /\ last'.op = "Save" => ~last'.res.err
          /\ uids' = AcceptedIDs(store')
          /\ numRecent' = Cardinality(AcceptedWith(store', FlagRecent))
          /\ numUnseen' = Cardinality({u \in Indexed' : FlagSeen \notin StoredFlags(store', u)})]_vars

\* The store enumerates an entry that does not decode before an entry that
\* decodes, that the predicate accepts and that carries the ack.
MatchAfterUndecodable(st, ack) ==
    \E u \in Undecodable(st), v \in DOMAIN st \ (Undecodable(st) \cup Rejected(st)) :
        /\ u < v
        /\ DecodeBitmessage(st[v]).Ack = ack

\* C20: when the store enumerates an undecodable entry before a message
\* that carries the ack, ReceiveAck still returns a message with that ack.
C20_AckScanSkipsUndecodable ==
    [][(/\ last = NoCall
        /\ last'.op = "ReceiveAck"
        /\ MatchAfterUndecodable(store, last'.arg[1]))
       => /\ ~last'.res.msg.isNil
          /\ last'.res.msg.Ack = last'.arg[1]]_vars

\* The cache as one complete refresh of the store would leave it.
Rebuilt(st, nid, oldUids) ==
    LET r == refresh(st, nid, oldUids, NoFail)
    IN  <<r.uids, r.numRecent, r.numUnseen>>

\* C21: when Save returns an error, uids and both counters are either
\* what they were before the call or what one complete rebuild from the
\* store gives.
C21_SaveErrorLeavesCacheWhole ==
    [][(last = NoCall /\ last'.op = "Save" /\ last'.res.err)
       => \/ <<uids', numRecent', numUnseen'>> = <<uids, numRecent, numUnseen>>
          \/ <<uids', numRecent', numUnseen'>> = Rebuilt(store', nextID', uids)]_vars

\* The recorded lookup is a set resolution whose first range has the
\* marker of the last message as its lower bound.
LastFirst ==
    /\ last.op \in {"SetByUID", "SetBySequenceNumber"}
    /\ Len(uids) > 0
    /\ IsLast(last.arg[1].Min)

\* What the resolver of the recorded lookup gives for the ranges after the
\* first.
RestOfSet ==
    IF last.op = "SetByUID" THEN bitmessageSetByUID(store, uids, Tail(last.arg))
    ELSE bitmessageSetBySequenceNumber(store, uids, Tail(last.arg))

\* C22: on a non-empty folder, a set resolver gives for a range whose lower
\* bound is the marker of the last message exactly one message, the one
\* with the identifier at the end of uids, followed by what the ranges
\* after it give.
C22_LastMarkerGivesLastMessage ==
    LastFirst => /\ Len(last.res) >= 1
                 /\ ~last.res[1].isNil
                 /\ last.res[1].UID = uids[Len(uids)]
                 /\ Tail(last.res) = RestOfSet

\* C23: on an empty folder Messages() is 0, GetSequenceNumber is 1 for
\* every target, a lookup by identifier or by sequence number returns nil,
\* bitmessagesBySequenceRange(1, 1) is empty, and both set resolvers return
\* the empty result for every set expression.
C23_EmptyFolderQueries ==
    uids = <<>> =>
        /\ messages(uids) = 0
        /\ \A t \in 0..(MaxUID + 1) : GetSequenceNumber(uids, t) = 1
        /\ bitmessagesBySequenceRange(store, uids, 1, 1) = <<>>
        /\ last.op \in {"ByUID", "BySequenceNumber"} => last.res = <<NilBM>>
        /\ last.op \in {"SetByUID", "SetBySequenceNumber"} => last.res = <<>>

\* A set with the last-message marker is resolved by identifier on a folder
\* whose index is empty while the store is not.
C23_Witness ==
    /\ uids = <<>>
    /\ store # EmptyStore
    /\ last.op = "SetByUID"
    /\ IsLast(last.arg[1].Min)

\* A value of a range that is neither a number nor the marker of the last
\* message nor absent.
Malformed(sn) == ~IsLast(sn) /\ ~IsNil(sn) /\ Value(sn).err

\* The first range of the set that satisfies bad, Len(set) + 1 if none does.
FirstRange(set, bad(_)) ==
    IF \E i \in 1..Len(set) : bad(set[i])
    THEN CHOOSE i \in 1..Len(set) : bad(set[i]) /\ \A j \in 1..(i - 1) : ~bad(set[j])
    ELSE Len(set) + 1

\* What the resolver of the recorded lookup gives for the ranges before
\* the k-th.
ResolvedBefore(k) ==
    IF last.op = "SetByUID" THEN bitmessageSetByUID(store, uids, SubSeq(last.arg, 1, k - 1))
    ELSE bitmessageSetBySequenceNumber(store, uids, SubSeq(last.arg, 1, k - 1))

MalformedAny(r) == Malformed(r.Min) \/ Malformed(r.Max)

\* The malformed values the resolvers look at: the lower value, and the
\* upper value of a range whose lower value is a number.
MalformedRead(r) == Malformed(r.Min) \/ (~IsLast(r.Min) /\ Malformed(r.Max))

C25_LastUIDAlwaysReturns ==
    last.op = "LastUID" =>
        /\ ~last.res[1].panic
        /\ last.res[1].value = IF uids = <<>> THEN nextUID ELSE uids[Len(uids)]

\* The cache after the refresh is run once more on the state s this step
\* leaves behind.
RefreshedAgain ==
    LET r == refresh(store', nextID', uids', NoFail)
    IN  <<r.uids, r.numRecent, r.numUnseen>>

\* C26: a refresh that follows a refresh with no store mutation in between
\* leaves uids and both counters as the first one left them.
C26_RefreshIdempotent ==
    [][RefreshRan => RefreshedAgain = <<uids', numRecent', numUnseen'>>]_vars

\* A saving call has rebuilt, from a folder that also holds entries the
\* predicate rejects or that another writer put there, an index of two
\* messages.
C26_Witness ==
    /\ last.op \in {"AddNew", "Save"}
    /\ ~last.res.err
    /\ Len(uids) = 2
    /\ numUnseen > 0

\* C29: every call of GetSequenceNumber on a strictly ascending index
\* returns after finitely many iterations of its loop.
C29_SearchTerminates == (srch.phase = "call") ~> (srch.phase = "done")

\* C30: at every iteration of the loop of GetSequenceNumber, with the probe
\* computed exactly, minIndex <= checkIndex <= maxIndex <= len(uids)-1,
\* the bounds are the identifiers at minIndex and maxIndex with
\* uids[minIndex] <= target <= uids[maxIndex] and uids[minIndex] <
\* uids[maxIndex], the index checkIndex+1 read after a low probe is within
\* the slice, and an iteration that does not return makes
\* maxIndex - minIndex strictly smaller.
C30_LoopInvariant ==
    [][srch.phase = "loop" =>
          LET s  == srch.s
              ci == checkIndex(s, srch.uid)
          IN  /\ s.minUID = At(srch.U, s.minIndex)
              /\ s.maxUID = At(srch.U, s.maxIndex)
              /\ s.minUID < s.maxUID
              /\ s.minUID <= srch.uid /\ srch.uid <= s.maxUID
              /\ s.minIndex <= ci /\ ci <= s.maxIndex /\ s.maxIndex <= Len(srch.U) - 1
              /\ At(srch.U, ci) < srch.uid => ci + 1 <= Len(srch.U) - 1
              /\ srch'.phase = "loop" =>
                    srch'.s.maxIndex - srch'.s.minIndex < s.maxIndex - s.minIndex]_vars

\* The loop is entered again after a low probe has moved the lower bound.
C30_Witness ==
    /\ srch.phase = "loop"
    /\ srch.iters >= 1
    /\ srch.s.minIndex > 0

\* C27: every write of the key Manager's database is made under the
\* exclusive lock and every read under at least the read lock, so that no
\* goroutine writes the database while another reads or writes it.
C27_ManagerAccessLocked ==
    \A g \in Callers :
        /\ mgr.acc[g] = "write" => mgr.mutex.writer = g
        /\ mgr.acc[g] = "read" => g \in mgr.mutex.readers \/ mgr.mutex.writer = g
        /\ \A h \in Callers \ {g} : ~KeyConflict(mgr.acc[g], mgr.acc[h])

\* C28: no caller takes the mailbox's lock while it already holds it, and
\* every call of a public method eventually returns, with readers and a
\* writer running concurrently on the writer-preferring lock.
C28_NoReacquireEveryCallReturns ==
    /\ [](\A g \in Callers : rwm.holds[g] <= 1)
    /\ \A g \in Callers : (rwm.pc[g].step # "idle") ~> (rwm.pc[g].step = "idle")

\* C31: DeleteFlaggedMessages deletes only messages that carry the Deleted
\* flag at the moment it deletes them: a message of its snapshot that a
\* concurrent Save has replaced by a version without the flag stays.
C31_FlaggedDeletesOnlyFlagged ==
    [][\A p \in Callers :
          (pc[p] = "del_next" /\ pc'[p] = "del_remove")
          => FlaggedDeleted(store, loc'[p].uid)]_vars

\* The store holds no entry with the content of the message m that the
\* scan of ReceiveAck matched (m is held with ack-received already set).
MatchGone(st, m) ==
    \A u \in DOMAIN st :
        \/ DecodeFails(st[u])
        \/ Stored(st, u).Ack # m.Ack
        \/ Stored(st, u).Flags # m.Flags
        \/ Stored(st, u).TimeReceived # m.TimeReceived

\* C32: the scan and the save of ReceiveAck are one step for the other
\* writers: when the matched message has been deleted by another caller
\* between the scan and the save, the save of ReceiveAck puts no entry into
\* the store.
C32_AckDoesNotReinsert ==
    [][\A p \in Callers :
          (/\ pc[p] = "ack_lock"
           /\ pc'[p] # "ack_lock"
           /\ MatchGone(store, loc[p].msg))
          => DOMAIN store' \subseteq DOMAIN store]_vars

\* C33: the recent and the unseen counter never wrap below zero: no step
\* decrements a counter that is 0 (DeleteBitmessageByUID is the only code
\* that decrements them), also after a refresh that failed part-way.
C33_CountersNeverWrap ==
    [][/\ numRecent' = numRecent - 1 => numRecent > 0
       /\ numUnseen' = numUnseen - 1 => numUnseen > 0]_vars

\* The number of times address a occurs in the list q.
Occurrences(q, a) == Cardinality({i \in DOMAIN q : q[i] = a})

\* C34: in every reachable state of the key Manager, NumImported() +
\* NumDeterministic() is Size(), and each address of the database occurs
\* once in exactly one of importedIDs and derivedIDs.
C34_ListsPartitionDatabase ==
    /\ NumImported(mgr) + NumDeterministic(mgr) = Size(mgr)
    /\ \A a \in DOMAIN mgr.IDs :
          Occurrences(mgr.importedIDs, a) + Occurrences(mgr.derivedIDs, a) = 1

\* C35: Stop is idempotent and safe under concurrent calls: whatever the
\* number of sequential and concurrent calls, the quit channel is never
\* closed twice (which would panic) and the connection is closed at most
\* once, and once a call of Stop has returned both have been closed exactly
\* once.
C35_StopClosesOnce ==
    /\ ~cli.panicked
    /\ cli.connCloses <= 1
    /\ cli.returned => cli.quit = "closed" /\ cli.connCloses = 1

\* A call of Stop has returned, and another one has found the channel
\* closed and is about to return.
C35_Witness ==
    /\ cli.returned
    /\ \E s \in Stoppers : cli.stops[s] = "Unlock" /\ cli.quitMtx = s
    /\ cli.connCloses = 1

\* Every goroutine that Start launched has returned.
ProcessorsExited ==
    /\ cli.started
    /\ \A i \in DOMAIN cli.procs : cli.procs[i].at = "exited"

\* C36: once Start and a call of Stop have returned, every processor that
\* Start launched eventually exits and a pending WaitForShutdown
\* eventually returns, wherever the processors were when Stop ran (a
\* receive pending on the closed connection fails).
C36_ShutdownCompletes ==
    /\ (cli.started /\ cli.returned) ~> ProcessorsExited
    /\ (cli.started /\ cli.returned /\ cli.wait = "Wait") ~> (cli.wait = "returned")

\* Stop has returned, the processors have exited and WaitForShutdown has
\* returned.
C36_Witness ==
    /\ cli.returned
    /\ ProcessorsExited
    /\ cli.wait = "returned"

\* C37: Start launches one processor per object type, and each asks for
\* the objects from its own counter and delivers to its own handler:
\* messages from msgCounter to msgFunc, broadcasts from broadcastCounter to
\* broadcastFunc, getpubkey requests from getpubkeyCounter to
\* getpubkeyFunc.
C37_OneProcessorPerTypeOwnCounter ==
    cli.started =>
        \A t \in DOMAIN ObjectTypes :
            \E i \in DOMAIN cli.procs :
                /\ cli.procs[i].objType = ObjectTypes[t]
                /\ cli.procs[i].fromCounter = cli.args[t]
                /\ cli.procs[i].f = Handlers[t]
                /\ \A j \in DOMAIN cli.procs :
                      cli.procs[j].objType = ObjectTypes[t] => j = i

====
